---------------------------- MODULE Spec2Model ----------------------------
(***************************************************************************)
(* State-machine model of the RAG service.                                 *)
(*                                                                         *)
(*   CodeRetrievalService   (src/src/services/code-retrieval.service.ts,   *)
(*                           lines 43-540): the relational ledger          *)
(*                           code_examples and its projection in the       *)
(*                           vector index (QdrantService).                 *)
(*   EmbeddingService       (src/src/services/embedding.service.js): the   *)
(*                           remote embedding call with its retry loop.    *)
(*   LocalEmbeddingService  (src/unnamed/part_005): the lazily loaded      *)
(*                           inference model.                              *)
(*   QdrantService          (src/unnamed/part_007): the collection and the *)
(*                           hybrid search with its dense fallback.        *)
(*   CodebaseIndexerService (code-retrieval.service.ts, lines 573-1143):   *)
(*                           the chunk store                               *)
(*                           code_chunks, the singleton index_stats row,   *)
(*                           the full-index pass, the file watcher with    *)
(*                           its debounce timer and the queue drain.       *)
(*                                                                         *)
(* Every async method is cut at its awaits: one action per synchronous     *)
(* block, so that the interleavings of the single-threaded event loop are  *)
(* exactly the interleavings of the actions.                               *)
(***************************************************************************)
EXTENDS Integers, Sequences, FiniteSets, TLC

VARIABLES
    \* ---- CodeRetrievalService ----
    code_examples,   \* rows of table code_examples (the ledger)
    nextRowId,       \* AUTOINCREMENT counter of code_examples.id
    qdrantPoints,    \* points of the vector-index collection
    call,            \* the in-flight / finished service calls, per client
    \* ---- CodebaseIndexerService ----
    fsExists,        \* file system: does the file exist
    fsMtime,         \* file system: modification time (= content version)
    fsContent,       \* file system: the content, as the chunker sees it
    code_chunks,     \* rows of table code_chunks
    index_stats,     \* the singleton row of table index_stats
    isIndexing,      \* this.isIndexing
    indexQueue,      \* this.indexQueue (a Set: insertion order, no repeats)
    debounceTimer,   \* this.debounceTimer is non-null
    watcher,         \* this.watcher is non-null
    openWatchers,    \* the runtime's open fs.watch handles
    pendingTimers,   \* the runtime's pending setTimeout callbacks (ticks left)
    quiet,           \* ticks elapsed since the last change notification
    pass,            \* the indexCodebase() calls, per caller
    drain,           \* the processIndexQueue() runs
    task,            \* the indexFile() invocations, per owner and file
    completedAt,     \* history: mtime seen by the last completed indexFile(f)
    \* ---- EmbeddingService (remote API backend) ----
    apiKey,          \* this.apiKey is non-empty
    baseURL,         \* this.baseURL, as text
    maxRetries,      \* this.maxRetries
    embedCall,       \* the generateEmbedding() call and its history
    \* ---- LocalEmbeddingService ----
    extractor,       \* this.extractor: 0 for null, else the load that set it
    initialized,     \* this.initialized
    pipelineCalls,   \* history: the number of pipeline() invocations
    localCall,       \* the calls on the instance, per caller
    \* ---- EmbeddingService.generateBatchEmbeddings ----
    batchCall,       \* the batch call, its sub-batch in flight and its history
    \* ---- QdrantService ----
    collectionExists, \* the server holds the collection this.collection
    createRequests,  \* history: the create-collection requests sent
    ensureCall,      \* the ensureCollectionExists() calls, per caller
    hybridCall,      \* the searchHybrid() call
    collectionSize,  \* the size of the collection's dense vectors (0: none)
    sentLength,      \* history: the length of the dense vector each store call sent
    \* ---- readers of the chunk store ----
    reader,          \* the searchSimilar() or getStats() call of a reader
    replaced,        \* history: the rows the re-index in flight has deleted
    \* ---- configuration ----
    processEnv,      \* process.env, as far as the services read it
    config,          \* defaultConfig.config, the object POST /configure sets
    configured,      \* history: the settings POST /configure has set
    \* ---- retention and similarity ----
    clearCall,       \* the clearOldExamples() or clearOldPoints() call
    cosine           \* the last cosineSimilarity() call and what it computed

ledgerVars == <<code_examples, nextRowId, qdrantPoints, call>>
indexerVars == <<fsExists, fsMtime, fsContent, code_chunks, index_stats, isIndexing,
                 indexQueue, debounceTimer, watcher, openWatchers, pendingTimers, quiet,
                 pass, drain, task, completedAt>>
gatewayVars == <<apiKey, baseURL, maxRetries, embedCall>>
localVars == <<extractor, initialized, pipelineCalls, localCall>>
embedVars == <<gatewayVars, localVars>>
batchVars == <<batchCall>>
qdrantVars == <<collectionExists, createRequests, ensureCall, hybridCall,
                collectionSize, sentLength>>
readerVars == <<reader, replaced>>
configVars == <<processEnv, config, configured>>
retentionVars == <<clearCall>>
cosineVars == <<cosine>>
extraVars == <<batchVars, qdrantVars, readerVars, configVars, retentionVars, cosineVars>>
vars == <<ledgerVars, indexerVars, embedVars, extraVars>>

-----------------------------------------------------------------------------
(* Bounds of the model.                                                    *)
MaxRows == 2

\* The concurrent callers of CodeRetrievalService.
Clients == {"c1", "c2"}

(* The inputs the callers draw from.                                       *)
Texts == {"t1", "t2", "t3"}
ToolNames == {"gen", "fix"}
LanguageNames == {"ts", "py"}
NoValue == "-"

Examples ==
    { [task |-> "t1", tool |-> "gen", language |-> "ts", success |-> TRUE,
       errorType |-> NoValue],
      [task |-> "t2", tool |-> "fix", language |-> "py", success |-> TRUE,
       errorType |-> NoValue],
      [task |-> "t2", tool |-> "gen", language |-> "ts", success |-> FALSE,
       errorType |-> "syntax"],
      [task |-> "t3", tool |-> "gen", language |-> "py", success |-> FALSE,
       errorType |-> NoValue] }

Query(tool, language, topK, threshold) ==
    [task |-> "t1", tool |-> tool, language |-> language, topK |-> topK,
     threshold |-> threshold, errorType |-> NoValue]

Queries ==
    { Query(NoValue, NoValue, 1, 0),  Query(NoValue, NoValue, 2, 0),
      Query("gen", NoValue, 1, 0),    Query("gen", NoValue, 2, 0),
      Query(NoValue, "ts", 2, 0),     Query(NoValue, "ts", 2, 90),
      Query("gen", "ts", 1, 90),      Query(NoValue, NoValue, 2, 90),
      Query(NoValue, NoValue, 0, 0),
      [Query(NoValue, NoValue, 2, 0) EXCEPT !.errorType = "syntax"] }

-----------------------------------------------------------------------------
(* Embeddings and similarity.  An embedding is a fixed-length vector; the  *)
(* provider is deterministic in the text.  Scores are compared exactly, by *)
(* cross-multiplication, instead of in floating point.                     *)
Embedding(text) ==
    CASE text = "t1" -> <<2, 0>>
      [] text = "t2" -> <<2, 1>>
      [] OTHER       -> <<0, 1>>

Dot(a, b) == a[1] * b[1] + a[2] * b[2]

\* cosineSimilarity(a, b) >= pct / 100, for vectors with non-negative entries
CosineAtLeast(a, b, pct) ==
    100 * 100 * Dot(a, b) * Dot(a, b) >= pct * pct * Dot(a, a) * Dot(b, b)

\* cosineSimilarity(q, a) > cosineSimilarity(q, b)
CosineGreater(q, a, b) ==
    Dot(q, a) * Dot(q, a) * Dot(b, b) > Dot(q, b) * Dot(q, b) * Dot(a, a)


-----------------------------------------------------------------------------
(*                       CodeRetrievalService                              *)

NoExample == [task |-> NoValue, tool |-> NoValue, language |-> NoValue,
              success |-> FALSE, errorType |-> NoValue]
NoQuery == [task |-> NoValue, tool |-> NoValue, language |-> NoValue,
            topK |-> 0, threshold |-> 0, errorType |-> NoValue]

\* A client with no call in flight.
IdleCall == [op |-> "none", pc |-> "idle", ex |-> NoExample, q |-> NoQuery,
             insertId |-> 0, outcome |-> "none", failedAt |-> "none",
             retId |-> 0, retList |-> <<>>]

\* INSERT INTO code_examples: the row the statement writes.
ExampleRow(id, ex) ==
    [id |-> id, task |-> ex.task, tool |-> ex.tool,
     language |-> ex.language, success |-> ex.success,
     error_type |-> ex.errorType]

\* The CodePoint storeExample builds for the row it has just inserted.
CodePointOf(id, ex) ==
    [id |-> id, task |-> ex.task, tool |-> ex.tool,
     language |-> ex.language, success |-> ex.success]

\* QdrantService.upsertPoint: insert, or replace the point of the same id.
UpsertPoint(points, point) ==
    {p \in points : p.id # point.id} \cup {point}

\* The element of S that a descending sort by similarity to qvec puts first;
\* equal scores keep the store's order (by id: oldest first, or newest first).
Top(S, qvec, newestFirst) ==
    CHOOSE p \in S : \A o \in S \ {p} :
        \/ CosineGreater(qvec, Embedding(p.task), Embedding(o.task))
        \/ /\ ~CosineGreater(qvec, Embedding(o.task), Embedding(p.task))
           /\ IF newestFirst THEN p.id > o.id ELSE p.id < o.id

RECURSIVE RankDesc(_, _, _)
RankDesc(S, qvec, newestFirst) ==
    IF S = {} THEN <<>>
    ELSE LET p == Top(S, qvec, newestFirst)
         IN  <<p>> \o RankDesc(S \ {p}, qvec, newestFirst)

Take(seq, n) == SubSeq(seq, 1, IF n < Len(seq) THEN n ELSE Len(seq))

\* The Qdrant filter retrieveSimilarExamples builds: success = true, plus the
\* tool and the language when supplied.
MatchesFilter(p, q) ==
    /\ p.success = TRUE
    /\ (q.tool # NoValue => p.tool = q.tool)
    /\ (q.language # NoValue => p.language = q.language)

SearchDenseDefaultTopK == 5

\* QdrantService.searchDense: the topK best-scoring points that pass the filter.
SearchDense(points, q) ==
    Take(RankDesc({p \in points : MatchesFilter(p, q)}, Embedding(q.task), FALSE),
         IF q.topK = 0 THEN SearchDenseDefaultTopK ELSE q.topK)

\* Mutant of ApplyThreshold: the comparison is negated (score < threshold).
ApplyThresholdBelow(results, q) ==
    SelectSeq(results,
              LAMBDA p : ~CosineAtLeast(Embedding(q.task), Embedding(p.task),
                                        q.threshold))

\* searchResults.filter(result => result.score >= threshold).map(...)
ApplyThreshold(results, q) ==
    SelectSeq(results,
              LAMBDA p : CosineAtLeast(Embedding(q.task), Embedding(p.task),
                                       q.threshold))

\* SELECT * FROM code_examples WHERE success = 0 [AND tool = ?] [AND language = ?]
\*   [AND error_type = ?] ORDER BY timestamp DESC LIMIT 100
RecentLimit == 100

\* A selection that leaves out `WHERE success = 0`.
RecentExamples(rows, q) ==
    LET Selected(r) == /\ (q.tool # NoValue => r.tool = q.tool)
                       /\ (q.language # NoValue => r.language = q.language)
                       /\ (q.errorType # NoValue => r.error_type = q.errorType)
        sel == {r \in rows : Selected(r)}
    IN  {r \in sel : Cardinality({o \in sel : o.id > r.id}) < RecentLimit}

RecentFailures(rows, q) ==
    LET Selected(r) == /\ r.success = FALSE
                       /\ (q.tool # NoValue => r.tool = q.tool)
                       /\ (q.language # NoValue => r.language = q.language)
                       /\ (q.errorType # NoValue => r.error_type = q.errorType)
        sel == {r \in rows : Selected(r)}
    IN  {r \in sel : Cardinality({o \in sel : o.id > r.id}) < RecentLimit}

\* EmbeddingService.findMostSimilar: threshold filter, descending sort, topK.
FindMostSimilar(qvec, candidates, topK, threshold) ==
    Take(RankDesc({r \in candidates :
                      CosineAtLeast(qvec, Embedding(r.task), threshold)},
                  qvec, TRUE),
         topK)

Ids(seq) == [i \in 1..Len(seq) |-> seq[i].id]

----
(* storeExample(example)                                                   *)

StoresInFlight == Cardinality({c \in Clients : call[c].op = "store" /\ call[c].pc # "done"})

\* The call itself: synchronous up to `await generateEmbedding(example.task)`.
StoreExampleCall(c, ex) ==
    /\ call[c].pc = "idle"
    /\ nextRowId + StoresInFlight <= MaxRows
    /\ call' = [call EXCEPT ![c] = [IdleCall EXCEPT !.op = "store",
                                      !.pc = "embed", !.ex = ex]]
    /\ UNCHANGED <<code_examples, nextRowId, qdrantPoints>>

\* catch (error) { logger.error(...); throw error; }
StoreThrows(rec, where) ==
    [rec EXCEPT !.pc = "done", !.outcome = "threw", !.failedAt = where]

\* generateEmbedding rejected: the outer catch rethrows.
StoreEmbedFailed(c) ==
    /\ call' = [call EXCEPT ![c] = StoreThrows(call[c], "embed")]
    /\ UNCHANGED <<code_examples, nextRowId, qdrantPoints>>

\* Mutant of StoreInsertFailed: the INSERT error is swallowed and the upsert
\* is attempted all the same.
StoreInsertFailedCarriesOn(c) ==
    /\ call' = [call EXCEPT ![c].pc = "upsert", ![c].failedAt = "insert"]
    /\ UNCHANGED <<code_examples, nextRowId, qdrantPoints>>

\* this.db.query(sql).run(...) threw: the outer catch rethrows.
StoreInsertFailed(c) ==
    /\ call' = [call EXCEPT ![c] = StoreThrows(call[c], "insert")]
    /\ UNCHANGED <<code_examples, nextRowId, qdrantPoints>>

\* The INSERT succeeded: lastInsertRowid, then `await upsertPoint(codePoint)`.
StoreInserted(c) ==
    /\ code_examples' = code_examples \cup {ExampleRow(nextRowId, call[c].ex)}
    /\ nextRowId' = nextRowId + 1
    /\ call' = [call EXCEPT ![c].pc = "upsert", ![c].insertId = nextRowId]
    /\ UNCHANGED qdrantPoints

\* generateEmbedding settles; on success the INSERT runs in the same block.
StoreEmbedResolve(c) ==
    /\ call[c].op = "store" /\ call[c].pc = "embed"
    /\ \E embedOk \in BOOLEAN, insertOk \in BOOLEAN :
          IF ~embedOk THEN StoreEmbedFailed(c)
          ELSE IF ~insertOk THEN StoreInsertFailed(c)
          ELSE StoreInserted(c)

\* return insertId
StoreReturns(rec, failed) ==
    [rec EXCEPT !.pc = "done", !.outcome = "returned", !.retId = rec.insertId,
                !.failedAt = failed]

\* upsertPoint resolved.
StoreUpsertOk(c) ==
    /\ qdrantPoints' = UpsertPoint(qdrantPoints, CodePointOf(call[c].insertId, call[c].ex))
    /\ call' = [call EXCEPT ![c] = StoreReturns(call[c], "none")]
    /\ UNCHANGED <<code_examples, nextRowId>>

\* Mutant of StoreUpsertFailed: the upsert error rolls the row back and is
\* rethrown to the caller.
StoreUpsertFailedRollsBack(c) ==
    /\ code_examples' = {r \in code_examples : r.id # call[c].insertId}
    /\ call' = [call EXCEPT ![c] = [call[c] EXCEPT !.pc = "done",
                                      !.outcome = "threw", !.failedAt = "upsert"]]
    /\ UNCHANGED <<nextRowId, qdrantPoints>>

\* catch (qdrantError) { logger.warn(...) }: SQLite only, and carry on.
StoreUpsertFailed(c) ==
    /\ call' = [call EXCEPT ![c] = StoreReturns(call[c], "upsert")]
    /\ UNCHANGED <<code_examples, nextRowId, qdrantPoints>>

StoreUpsertResolve(c) ==
    /\ call[c].op = "store" /\ call[c].pc = "upsert"
    /\ \E upsertOk \in BOOLEAN :
          IF upsertOk THEN StoreUpsertOk(c) ELSE StoreUpsertFailed(c)

----
(* retrieveSimilarExamples(task, options)                                  *)

\* The call itself: the defaults are read, then `await generateEmbedding(task)`.
RetrieveExamplesCall(c, q) ==
    /\ call[c].pc = "idle"
    /\ call' = [call EXCEPT ![c] = [IdleCall EXCEPT !.op = "retrieve",
                                      !.pc = "embed", !.q = q]]
    /\ UNCHANGED <<code_examples, nextRowId, qdrantPoints>>

\* Mutant of RetrieveDegrades: the catch block rethrows.
RetrieveRethrows(rec, where) ==
    [rec EXCEPT !.pc = "done", !.outcome = "threw", !.failedAt = where]

\* catch (error) { logger.error(...); return []; }
RetrieveDegrades(rec, where) ==
    [rec EXCEPT !.pc = "done", !.outcome = "returned", !.retList = <<>>,
                !.failedAt = where]

\* generateEmbedding settles; on success the filter is built and
\* `await searchDense(...)` is issued.
RetrieveEmbedResolve(c) ==
    /\ call[c].op = "retrieve" /\ call[c].pc = "embed"
    /\ \E embedOk \in BOOLEAN :
          call' = [call EXCEPT ![c] =
                      IF embedOk THEN [call[c] EXCEPT !.pc = "search"]
                      ELSE RetrieveDegrades(call[c], "embed")]
    /\ UNCHANGED <<code_examples, nextRowId, qdrantPoints>>

\* searchDense settles; on success the threshold is applied and the list returned.
RetrieveSearchResolve(c) ==
    /\ call[c].op = "retrieve" /\ call[c].pc = "search"
    /\ \E searchOk \in BOOLEAN :
          call' = [call EXCEPT ![c] =
                      IF searchOk
                      THEN [call[c] EXCEPT !.pc = "done", !.outcome = "returned",
                               !.retList = Ids(ApplyThreshold(
                                   SearchDense(qdrantPoints, call[c].q), call[c].q))]
                      ELSE RetrieveDegrades(call[c], "search")]
    /\ UNCHANGED <<code_examples, nextRowId, qdrantPoints>>

----
(* retrieveSimilarErrors(task, options)                                    *)

RetrieveErrorsCall(c, q) ==
    /\ call[c].pc = "idle"
    /\ call' = [call EXCEPT ![c] = [IdleCall EXCEPT !.op = "errors",
                                      !.pc = "embed", !.q = q]]
    /\ UNCHANGED <<code_examples, nextRowId, qdrantPoints>>

\* catch (error) { logger.error(...); return []; }
ErrorsDegrades(rec, where) ==
    [rec EXCEPT !.pc = "done", !.outcome = "returned", !.retList = <<>>,
                !.failedAt = where]

\* generateEmbedding settles; on success the SELECT and findMostSimilar run in
\* the same block (either may throw).
RetrieveErrorsResolve(c) ==
    /\ call[c].op = "errors" /\ call[c].pc = "embed"
    /\ \E embedOk \in BOOLEAN, queryOk \in BOOLEAN :
          call' = [call EXCEPT ![c] =
                      IF ~embedOk THEN ErrorsDegrades(call[c], "embed")
                      ELSE IF ~queryOk THEN ErrorsDegrades(call[c], "query")
                      ELSE [call[c] EXCEPT !.pc = "done", !.outcome = "returned",
                               !.retList = Ids(FindMostSimilar(
                                   Embedding(call[c].q.task),
                                   RecentFailures(code_examples, call[c].q),
                                   call[c].q.topK, call[c].q.threshold))]]
    /\ UNCHANGED <<code_examples, nextRowId, qdrantPoints>>

\* The caller has consumed the result (or the error); the client may call again.
CallSettled(c) ==
    /\ call[c].pc = "done"
    /\ call' = [call EXCEPT ![c] = IdleCall]
    /\ UNCHANGED <<code_examples, nextRowId, qdrantPoints>>


-----------------------------------------------------------------------------
(*                      CodebaseIndexerService                             *)

\* Bounds of the model.
MaxMtime == 2
MaxChunks == 2
\* The runs of processIndexQueue() that can be in flight together.
MaxDrains == 1

\* The source files of the project root (all with a supported extension).
Files == {"a.ts", "b.ts"}
\* What the chunker can return for a file: chunks, identified by their
\* (startLine, endLine, type), i.e. by the id the row gets within its file.
ChunkIds == 1..MaxChunks

\* A file's content, as far as indexFile depends on it: whether the chunker
\* can parse it, and the chunks chunkCode(content, language) then returns.
Contents == {[parses |-> TRUE, chunks |-> S] : S \in SUBSET ChunkIds}
                \cup {[parses |-> FALSE, chunks |-> {}]}

\* The callers of indexCodebase(), the runs of processIndexQueue() that can
\* be in flight together, and a direct caller of indexFile().
PassCallers == {"p1", "p2"}
DrainNames == <<"d1", "d2", "d3">>
DrainIds == {DrainNames[i] : i \in 1..MaxDrains}
ApiCaller == "api"
Owners == PassCallers \cup DrainIds \cup {ApiCaller}

\* setTimeout(() => this.processIndexQueue(), 2000), in ticks of one second.
DebounceTicks == 2
\* const batchSize = 10, in indexCodebase.
BatchSize == 10

\* process.env.ENABLE_CODEBASE_INDEX !== 'false'
enableAutoIndex == TRUE

\* shouldIndexFile: a supported extension and not matched by the ignore rules.
ShouldIndexFile(f) == f \in Files

Min(a, b) == IF a < b THEN a ELSE b

\* glob(): the files it finds, as a list in the directory's order.
FileOrder == <<"a.ts", "b.ts">>
AsList(S) == SelectSeq(FileOrder, LAMBDA f : f \in S)

Range(seq) == {seq[i] : i \in 1..Len(seq)}

\* Set.add: appended when new, left in place when already a member.
SetAdd(queue, f) == IF f \in Range(queue) THEN queue ELSE Append(queue, f)

----
(* indexFile(filePath)                                                     *)

IdleTask == [pc |-> "idle", lm |-> 0, cv |-> 0, chunks |-> {}, todo |-> {},
             outcome |-> "none"]

\* The rows of code_chunks WHERE file_path = f.
RowsOf(rows, f) == {r \in rows : r.file = f}

\* The row indexFile inserts for chunk k: id is relativePath:start-end:type.
ChunkRow(f, k, lm, cv) ==
    [file |-> f, chunk |-> k, last_modified |-> lm, content |-> cv]

\* indexFile has returned (every exit path ends here; errors are only logged).
TaskDone(rec, outcome) ==
    [rec EXCEPT !.pc = "done", !.outcome = outcome, !.todo = {}]

\* History: the modification time the last completed indexFile(f) saw; a call
\* that threw into the outer catch completed nothing.
Completed(f, outcome, lm) ==
    [completedAt EXCEPT ![f] = IF outcome \in {"indexed", "skipped"} THEN lm ELSE 0]

\* The call: synchronous up to `await stat(filePath)`.
StartIndexFile(f) ==
    IF ~ShouldIndexFile(f)
    THEN TaskDone(IdleTask, "ignored")
    ELSE [IdleTask EXCEPT !.pc = "stat"]

\* if (existing && existing.last_modified >= lastModified) return;
AlreadyIndexed(existing, lastModified) ==
    existing.last_modified >= lastModified

\* stat settles.  A missing file throws into the outer catch.  Otherwise the
\* stored last_modified of one row of the file (LIMIT 1) decides the skip, and
\* `await readFile` is issued when the file is to be indexed.
FileStatResolve(o, f) ==
    /\ task[o, f].pc = "stat"
    /\ IF ~fsExists[f]
       THEN /\ task' = [task EXCEPT ![o, f] = TaskDone(task[o, f], "failed")]
            /\ completedAt' = Completed(f, "failed", 0)
       ELSE LET lm == fsMtime[f]
            IN  \/ /\ \E existing \in RowsOf(code_chunks, f) :
                         AlreadyIndexed(existing, lm)
                   /\ task' = [task EXCEPT ![o, f] =
                                  TaskDone([task[o, f] EXCEPT !.lm = lm], "skipped")]
                   /\ completedAt' = Completed(f, "skipped", lm)
                \/ /\ \/ RowsOf(code_chunks, f) = {}
                      \/ \E existing \in RowsOf(code_chunks, f) :
                            ~AlreadyIndexed(existing, lm)
                   /\ task' = [task EXCEPT ![o, f].pc = "read", ![o, f].lm = lm]
                   /\ UNCHANGED completedAt
    /\ UNCHANGED <<fsExists, fsMtime, fsContent, code_chunks, index_stats, isIndexing,
                   indexQueue, debounceTimer, watcher, openWatchers, pendingTimers, quiet,
                   pass, drain>>

\* this.chunker.chunkCode(content, language), for content that parses.
ChunkCode(content) == content.chunks

\* readFile settles.  A read error throws into the outer catch.  Otherwise the
\* old rows of the file are deleted, the chunker runs (it may throw), and the
\* loop issues `await generateEmbedding` for the first chunk.
FileReadResolve(o, f) ==
    /\ task[o, f].pc = "read"
    /\ IF ~fsExists[f]
       THEN /\ task' = [task EXCEPT ![o, f] = TaskDone(task[o, f], "failed")]
            /\ completedAt' = Completed(f, "failed", 0)
            /\ UNCHANGED code_chunks
       ELSE /\ code_chunks' = code_chunks \ RowsOf(code_chunks, f)
            /\ IF ~fsContent[f].parses \/ ChunkCode(fsContent[f]) = {}
               THEN LET outcome == IF fsContent[f].parses THEN "indexed"
                                   ELSE "failed"
                    IN  /\ task' = [task EXCEPT ![o, f] =
                                       TaskDone([task[o, f] EXCEPT !.cv = fsMtime[f]],
                                                outcome)]
                        /\ completedAt' = Completed(f, outcome, task[o, f].lm)
               ELSE /\ task' = [task EXCEPT ![o, f].pc = "embed",
                                            ![o, f].cv = fsMtime[f],
                                            ![o, f].chunks = ChunkCode(fsContent[f]),
                                            ![o, f].todo = ChunkCode(fsContent[f])]
                    /\ UNCHANGED completedAt
    /\ UNCHANGED <<fsExists, fsMtime, fsContent, index_stats, isIndexing,
                   indexQueue, debounceTimer, watcher, openWatchers, pendingTimers, quiet,
                   pass, drain>>

\* insertStmt.run(...): the row is written unless its id (PRIMARY KEY) exists,
\* in which case the statement throws into the per-chunk catch.
InsertChunk(rows, row) ==
    IF \E r \in rows : r.file = row.file /\ r.chunk = row.chunk
    THEN rows
    ELSE rows \cup {row}

\* generateEmbedding settles for the current chunk.  On success the row is
\* inserted; a failure is logged and the loop carries on with the next chunk.
FileEmbedResolve(o, f) ==
    /\ task[o, f].pc = "embed"
    /\ LET t == task[o, f]
           k == CHOOSE x \in t.todo : \A y \in t.todo : x <= y
       IN  /\ \E embedOk \in BOOLEAN :
                 code_chunks' = IF embedOk
                                THEN InsertChunk(code_chunks, ChunkRow(f, k, t.lm, t.cv))
                                ELSE code_chunks
           /\ IF t.todo = {k}
              THEN /\ task' = [task EXCEPT ![o, f] = TaskDone(t, "indexed")]
                   /\ completedAt' = Completed(f, "indexed", t.lm)
              ELSE /\ task' = [task EXCEPT ![o, f].todo = t.todo \ {k}]
                   /\ UNCHANGED completedAt
    /\ UNCHANGED <<fsExists, fsMtime, fsContent, index_stats, isIndexing,
                   indexQueue, debounceTimer, watcher, openWatchers, pendingTimers, quiet,
                   pass, drain>>

----
(* getStats() and indexCodebase()                                          *)

\* getStats: the row is read as {total_files, total_chunks, last_indexed,
\* index_duration} and its camelCase properties, which it does not have, are
\* defaulted with `|| 0`; totalChunks is COUNT(*) of code_chunks.
GetStats ==
    [totalFiles |-> 0, totalChunks |-> Cardinality(code_chunks),
     lastIndexed |-> 0, indexDuration |-> 0]

NoStats == [totalFiles |-> 0, totalChunks |-> 0, lastIndexed |-> 0,
            indexDuration |-> 0]

IdlePass == [pc |-> "idle", files |-> <<>>, i |-> 0, outcome |-> "none",
             ret |-> NoStats]

\* if (this.isIndexing) { logger.warn(...); return this.getStats(); }
PassRejected(c) ==
    /\ pass' = [pass EXCEPT ![c] = [IdlePass EXCEPT !.pc = "done",
                                      !.outcome = "rejected", !.ret = GetStats]]
    /\ UNCHANGED isIndexing

\* this.isIndexing = true; ... `await glob(patterns, ...)`
PassAccepted(c) ==
    /\ isIndexing' = TRUE
    /\ pass' = [pass EXCEPT ![c] = [IdlePass EXCEPT !.pc = "glob"]]

\* Mutant of IndexCodebaseCall: the isIndexing guard is left out.
IndexCodebaseCallUnguarded(c) ==
    /\ pass[c].pc = "idle"
    /\ PassAccepted(c)
    /\ UNCHANGED <<fsExists, fsMtime, fsContent, code_chunks, index_stats,
                   indexQueue, debounceTimer, watcher, openWatchers, pendingTimers, quiet,
                   drain, task, completedAt>>

\* The call of indexCodebase().
IndexCodebaseCall(c) ==
    /\ pass[c].pc = "idle"
    /\ IF isIndexing THEN PassRejected(c) ELSE PassAccepted(c)
    /\ UNCHANGED <<fsExists, fsMtime, fsContent, code_chunks, index_stats,
                   indexQueue, debounceTimer, watcher, openWatchers, pendingTimers, quiet,
                   drain, task, completedAt>>

\* files.slice(i, i + batchSize), for the batch that starts at index i.
BatchOf(files, i) == {files[j] : j \in i..Min(i + BatchSize - 1, Len(files))}

\* batch.map(file => this.indexFile(file)): every call of the batch starts.
StartBatch(c, files, i) ==
    [x \in DOMAIN task |->
        IF x[1] = c /\ x[2] \in BatchOf(files, i) THEN StartIndexFile(x[2])
        ELSE IF x[1] = c THEN IdleTask
        ELSE task[x]]

\* The end of a pass: the stats row is updated from files.length, from
\* getStats() as read before the update, from Date.now() and from the time
\* the pass took (some positive number of milliseconds), and `finally`
\* clears isIndexing.  The caller gets {...stats, totalFiles, indexDuration}.
FinishPass(c, files) ==
    /\ index_stats' = [total_files |-> Len(files),
                       total_chunks |-> GetStats.totalChunks,
                       last_indexed |-> 1,
                       index_duration |-> 1]
    /\ pass' = [pass EXCEPT ![c] =
                   [IdlePass EXCEPT !.pc = "done", !.outcome = "completed",
                       !.ret = [GetStats EXCEPT !.totalFiles = Len(files),
                                                !.indexDuration = 1]]]
    /\ isIndexing' = FALSE

\* Mutant of GlobResolve: no `finally`; a rejection of glob is rethrown with
\* isIndexing as it is.
GlobResolveWithoutFinally(c) ==
    /\ pass[c].pc = "glob"
    /\ \E globOk \in BOOLEAN :
          IF ~globOk
          THEN /\ pass' = [pass EXCEPT ![c] = [IdlePass EXCEPT !.pc = "done",
                                                  !.outcome = "threw"]]
               /\ UNCHANGED <<isIndexing, task, index_stats>>
          ELSE LET files == AsList({f \in Files : fsExists[f]})
               IN  IF files = <<>>
                   THEN FinishPass(c, files) /\ UNCHANGED task
                   ELSE /\ pass' = [pass EXCEPT ![c].pc = "batch",
                                                ![c].files = files, ![c].i = 1]
                        /\ task' = StartBatch(c, files, 1)
                        /\ UNCHANGED <<isIndexing, index_stats>>
    /\ UNCHANGED <<fsExists, fsMtime, fsContent, code_chunks,
                   indexQueue, debounceTimer, watcher, openWatchers, pendingTimers, quiet,
                   drain, completedAt>>

\* glob settles.  A rejection is rethrown, through `finally`.  Otherwise the
\* first batch is started, or with no file found the pass ends at once.
GlobResolve(c) ==
    /\ pass[c].pc = "glob"
    /\ \E globOk \in BOOLEAN :
          IF ~globOk
          THEN /\ pass' = [pass EXCEPT ![c] = [IdlePass EXCEPT !.pc = "done",
                                                  !.outcome = "threw"]]
               /\ isIndexing' = FALSE
               /\ UNCHANGED <<task, index_stats>>
          ELSE LET files == AsList({f \in Files : fsExists[f]})
               IN  IF files = <<>>
                   THEN FinishPass(c, files) /\ UNCHANGED task
                   ELSE /\ pass' = [pass EXCEPT ![c].pc = "batch",
                                                ![c].files = files, ![c].i = 1]
                        /\ task' = StartBatch(c, files, 1)
                        /\ UNCHANGED <<isIndexing, index_stats>>
    /\ UNCHANGED <<fsExists, fsMtime, fsContent, code_chunks,
                   indexQueue, debounceTimer, watcher, openWatchers, pendingTimers, quiet,
                   drain, completedAt>>

\* Mutant of BatchResolve: a batch with an indexFile call that failed rejects,
\* and the pass rethrows through `finally` without touching the stats.
BatchResolveAborts(c) ==
    /\ pass[c].pc = "batch"
    /\ \A f \in BatchOf(pass[c].files, pass[c].i) : task[c, f].pc = "done"
    /\ IF \E f \in BatchOf(pass[c].files, pass[c].i) : task[c, f].outcome = "failed"
       THEN /\ pass' = [pass EXCEPT ![c] = [IdlePass EXCEPT !.pc = "done",
                                               !.outcome = "threw"]]
            /\ isIndexing' = FALSE
            /\ UNCHANGED index_stats
       ELSE FinishPass(c, pass[c].files)
    /\ task' = [x \in DOMAIN task |-> IF x[1] = c THEN IdleTask ELSE task[x]]
    /\ UNCHANGED <<fsExists, fsMtime, fsContent, code_chunks,
                   indexQueue, debounceTimer, watcher, openWatchers, pendingTimers, quiet,
                   drain, completedAt>>

\* Promise.all(batch...) settles once every indexFile of the batch has
\* returned: the next batch starts, or the pass ends.
BatchResolve(c) ==
    /\ pass[c].pc = "batch"
    /\ \A f \in BatchOf(pass[c].files, pass[c].i) : task[c, f].pc = "done"
    /\ LET next == pass[c].i + BatchSize
       IN  IF next <= Len(pass[c].files)
           THEN /\ pass' = [pass EXCEPT ![c].i = next]
                /\ task' = StartBatch(c, pass[c].files, next)
                /\ UNCHANGED <<isIndexing, index_stats>>
           ELSE /\ FinishPass(c, pass[c].files)
                /\ task' = [x \in DOMAIN task |->
                               IF x[1] = c THEN IdleTask ELSE task[x]]
    /\ UNCHANGED <<fsExists, fsMtime, fsContent, code_chunks,
                   indexQueue, debounceTimer, watcher, openWatchers, pendingTimers, quiet,
                   drain, completedAt>>

\* The caller has consumed the result (or the error) of indexCodebase().
PassSettled(c) ==
    /\ pass[c].pc = "done"
    /\ pass' = [pass EXCEPT ![c] = IdlePass]
    /\ UNCHANGED <<fsExists, fsMtime, fsContent, code_chunks, index_stats, isIndexing,
                   indexQueue, debounceTimer, watcher, openWatchers, pendingTimers, quiet,
                   drain, task, completedAt>>

----
(* startWatching(), the watch callback, processIndexQueue(), stopWatching() *)

IdleDrain == [pc |-> "idle", cur |-> NoValue, rest |-> <<>>]

\* if (this.watcher || !this.enableAutoIndex) return; this.watcher = watch(...)
StartWatching ==
    /\ watcher' = (watcher \/ enableAutoIndex)
    /\ openWatchers' = IF watcher \/ ~enableAutoIndex THEN openWatchers
                       ELSE openWatchers + 1
    /\ UNCHANGED <<fsExists, fsMtime, fsContent, code_chunks, index_stats, isIndexing,
                   indexQueue, debounceTimer, pendingTimers, quiet,
                   pass, drain, task, completedAt>>

\* clearTimeout(this.debounceTimer): the pending callback is cancelled.
ClearTimeout(timers) == {}

\* The watch callback for path f: the path is queued and the single timer is
\* re-armed for the full window.
WatchCallback(f) ==
    IF ShouldIndexFile(f)
    THEN /\ indexQueue' = SetAdd(indexQueue, f)
         /\ pendingTimers' = (IF debounceTimer THEN ClearTimeout(pendingTimers)
                              ELSE pendingTimers) \cup {DebounceTicks}
         /\ debounceTimer' = TRUE
         /\ quiet' = 0
    ELSE UNCHANGED <<indexQueue, pendingTimers, debounceTimer, quiet>>

\* fs.watch reports a change of f to the callback of every open handle.
Notify(f) ==
    IF openWatchers > 0 THEN WatchCallback(f)
    ELSE UNCHANGED <<indexQueue, pendingTimers, debounceTimer, quiet>>

\* fs.watch reports f once more (it may report one change several times, and
\* changes that leave the modification time as it is).
WatchEvent(f) ==
    /\ openWatchers > 0
    /\ WatchCallback(f)
    /\ UNCHANGED <<fsExists, fsMtime, fsContent, code_chunks, index_stats, isIndexing,
                   watcher, openWatchers, pass, drain, task, completedAt>>

\* One second passes: every pending timer is one tick nearer.  A timer that
\* is due fires before more time passes.
Tick ==
    /\ 0 \notin pendingTimers
    /\ pendingTimers # {} \/ quiet < DebounceTicks
    /\ pendingTimers' = {t - 1 : t \in pendingTimers}
    /\ quiet' = Min(quiet + 1, DebounceTicks)
    /\ UNCHANGED <<fsExists, fsMtime, fsContent, code_chunks, index_stats, isIndexing,
                   indexQueue, debounceTimer, watcher, openWatchers,
                   pass, drain, task, completedAt>>

\* if (this.indexQueue.size === 0 || this.isIndexing) return;
DrainRefused == indexQueue = <<>> \/ isIndexing

\* The run of processIndexQueue() that a firing timer starts: one that is not
\* in flight.
FreeDrain == CHOOSE d \in DrainIds : drain[d].pc = "idle"

\* The timer expires and processIndexQueue() runs: unless refused, the queue
\* is copied and cleared and indexFile is called for the first file.
TimerFires ==
    /\ 0 \in pendingTimers
    /\ pendingTimers' = pendingTimers \ {0}
    /\ IF DrainRefused
       THEN UNCHANGED <<indexQueue, drain, task>>
       ELSE LET files == indexQueue
                d == FreeDrain
            IN  /\ \E x \in DrainIds : drain[x].pc = "idle"
                /\ indexQueue' = <<>>
                /\ drain' = [drain EXCEPT ![d] = [pc |-> "running", cur |-> Head(files),
                                                  rest |-> Tail(files)]]
                /\ task' = [task EXCEPT ![d, Head(files)] = StartIndexFile(Head(files))]
    /\ UNCHANGED <<fsExists, fsMtime, fsContent, code_chunks, index_stats, isIndexing,
                   debounceTimer, watcher, openWatchers, quiet, pass, completedAt>>

\* `await this.indexFile(file)` returns: the loop calls indexFile for the next
\* file of the copy, or processIndexQueue() ends.
DrainContinue(d) ==
    /\ drain[d].pc = "running"
    /\ task[d, drain[d].cur].pc = "done"
    /\ IF drain[d].rest = <<>>
       THEN /\ drain' = [drain EXCEPT ![d] = IdleDrain]
            /\ task' = [task EXCEPT ![d, drain[d].cur] = IdleTask]
       ELSE LET f == Head(drain[d].rest)
            IN  /\ drain' = [drain EXCEPT ![d].cur = f, ![d].rest = Tail(drain[d].rest)]
                /\ task' = [task EXCEPT ![d, drain[d].cur] = IdleTask,
                                        ![d, f] = StartIndexFile(f)]
    /\ UNCHANGED <<fsExists, fsMtime, fsContent, code_chunks, index_stats, isIndexing,
                   indexQueue, debounceTimer, watcher, openWatchers, pendingTimers, quiet,
                   pass, completedAt>>

\* Mutant of StopWatching: the watcher is closed and the timer left pending.
StopWatchingKeepsTimer ==
    /\ watcher' = FALSE
    /\ openWatchers' = IF watcher THEN openWatchers - 1 ELSE openWatchers
    /\ UNCHANGED <<fsExists, fsMtime, fsContent, code_chunks, index_stats, isIndexing,
                   indexQueue, debounceTimer, pendingTimers, quiet,
                   pass, drain, task, completedAt>>

\* stopWatching(): this.watcher is closed and the pending timer cancelled.
StopWatching ==
    /\ watcher' = FALSE
    /\ openWatchers' = IF watcher THEN openWatchers - 1 ELSE openWatchers
    /\ pendingTimers' = IF debounceTimer THEN ClearTimeout(pendingTimers)
                        ELSE pendingTimers
    /\ debounceTimer' = FALSE
    /\ UNCHANGED <<fsExists, fsMtime, fsContent, code_chunks, index_stats, isIndexing,
                   indexQueue, quiet, pass, drain, task, completedAt>>

\* Mutant of RemoveFile: DELETE FROM code_chunks, without the WHERE clause.
RemoveEveryFile(f) ==
    /\ code_chunks' = {}
    /\ UNCHANGED <<fsExists, fsMtime, fsContent, index_stats, isIndexing,
                   indexQueue, debounceTimer, watcher, openWatchers, pendingTimers, quiet,
                   pass, drain, task, completedAt>>

\* removeFile(filePath): DELETE FROM code_chunks WHERE file_path = ?
RemoveFile(f) ==
    /\ code_chunks' = code_chunks \ RowsOf(code_chunks, f)
    /\ UNCHANGED <<fsExists, fsMtime, fsContent, index_stats, isIndexing,
                   indexQueue, debounceTimer, watcher, openWatchers, pendingTimers, quiet,
                   pass, drain, task, completedAt>>

----
(* A direct caller of the public indexFile(filePath).                      *)

IndexFileCall(f) ==
    /\ \A g \in Files : task[ApiCaller, g].pc = "idle"
    /\ task' = [task EXCEPT ![ApiCaller, f] = StartIndexFile(f)]
    /\ UNCHANGED <<fsExists, fsMtime, fsContent, code_chunks, index_stats, isIndexing,
                   indexQueue, debounceTimer, watcher, openWatchers, pendingTimers, quiet,
                   pass, drain, completedAt>>

IndexFileReturn(f) ==
    /\ task[ApiCaller, f].pc = "done"
    /\ task' = [task EXCEPT ![ApiCaller, f] = IdleTask]
    /\ UNCHANGED <<fsExists, fsMtime, fsContent, code_chunks, index_stats, isIndexing,
                   indexQueue, debounceTimer, watcher, openWatchers, pendingTimers, quiet,
                   pass, drain, completedAt>>

----
(* The file system under the project root.                                 *)

\* A file is written: new content, and its modification time moves on.
ModifyFile(f) ==
    /\ fsExists[f] /\ fsMtime[f] < MaxMtime
    /\ fsMtime' = [fsMtime EXCEPT ![f] = @ + 1]
    /\ \E c \in Contents : fsContent' = [fsContent EXCEPT ![f] = c]
    /\ Notify(f)
    /\ UNCHANGED <<fsExists, code_chunks, index_stats, isIndexing,
                   watcher, openWatchers, pass, drain, task, completedAt>>

\* A file is created in the tree.
CreateFile(f) ==
    /\ ~fsExists[f] /\ fsMtime[f] < MaxMtime
    /\ fsExists' = [fsExists EXCEPT ![f] = TRUE]
    /\ fsMtime' = [fsMtime EXCEPT ![f] = @ + 1]
    /\ \E c \in Contents : fsContent' = [fsContent EXCEPT ![f] = c]
    /\ Notify(f)
    /\ UNCHANGED <<code_chunks, index_stats, isIndexing,
                   watcher, openWatchers, pass, drain, task, completedAt>>

\* A file is deleted from the tree.
DeleteFile(f) ==
    /\ fsExists[f]
    /\ fsExists' = [fsExists EXCEPT ![f] = FALSE]
    /\ Notify(f)
    /\ UNCHANGED <<fsMtime, fsContent, code_chunks, index_stats, isIndexing,
                   watcher, openWatchers, pass, drain, task, completedAt>>

-----------------------------------------------------------------------------
(*            EmbeddingService: generateEmbedding over the remote API      *)

\* The largest RAG_MAX_RETRIES the model configures.
MaxRetries == 3

\* parseInt(getEnv('RAG_MAX_RETRIES') || '3'), and retryWithBackoff's
\* `delay = 1000`.
DefaultMaxRetries == 3
BaseDelay == 1000

(* Texts.  A text is a sequence of pieces: every digit is a piece of its   *)
(* own and a run of other characters is one piece, so that String.includes *)
(* on digits and on whole words is the search for a contiguous             *)
(* subsequence.                                                            *)
Digit(d) ==
    CASE d = 0 -> "0" [] d = 1 -> "1" [] d = 2 -> "2" [] d = 3 -> "3"
      [] d = 4 -> "4" [] d = 5 -> "5" [] d = 6 -> "6" [] d = 7 -> "7"
      [] d = 8 -> "8" [] OTHER -> "9"

\* `${response.status}` for a three-digit status.
Digits(n) == <<Digit(n \div 100), Digit((n \div 10) % 10), Digit(n % 10)>>

\* text.includes(needle)
Includes(text, needle) ==
    \E i \in 1..(Len(text) - Len(needle) + 1) :
        SubSeq(text, i, i + Len(needle) - 1) = needle

\* getEnv('OPENROUTER_BASE_URL') || 'https://openrouter.ai/api/v1', and a
\* deployment that sets OPENROUTER_BASE_URL to a local gateway.
DefaultBaseURL == <<"https://openrouter.ai/api/v", "1">>
BaseURLs == {DefaultBaseURL, <<"http://localhost:", "5", "0", "0", "0", "/v", "1">>}

\* What the provider answers with a status that is not ok, and the bodies
\* it sends along.
Statuses == {400, 401, 429, 500, 503}
Bodies ==
    { <<"invalid request">>,
      <<"input ", "5", " is empty">>,
      <<"upstream answered ", "4", "2", "9">>,
      <<"upstream answered ", "4", "0", "1">> }

\* The ways one provider call fails: fetch rejects because the connection is
\* refused (the error carries the runtime's code, or is a bare 'fetch
\* failed'), or the response is not ok.
NoFailure == [kind |-> "none", code |-> NoValue, status |-> 0, body |-> <<>>]
Refusals ==
    {[kind |-> "refused", code |-> c, status |-> 0, body |-> <<>>] :
        c \in {"ConnectionRefused", "ECONNREFUSED", NoValue}}
HttpFailures ==
    {[kind |-> "http", code |-> NoValue, status |-> s, body |-> b] :
        s \in Statuses, b \in Bodies}
Failures == Refusals \cup HttpFailures

\* The error thrown inside the try block of the retried function: what fetch
\* rejects with, or
\*   new Error(`Embedding API error: ${response.status} - ${errorText}`).
ErrorOf(failure) ==
    IF failure.kind = "http"
    THEN [code |-> NoValue,
          message |-> <<"Embedding API error: ">> \o Digits(failure.status)
                         \o <<" - ">> \o failure.body]
    ELSE [code |-> failure.code,
          message |-> CASE failure.code = "ConnectionRefused" ->
                             <<"Unable to connect. Is the computer able to access the url?">>
                        [] failure.code = "ECONNREFUSED" ->
                             <<"connect ", "ECONNREFUSED">>
                        [] OTHER -> <<"fetch failed">>]

\* The catch block of the retried function: a refused connection, a message
\* with 401 and a message with 429 are replaced by a new Error; any other
\* error is rethrown as it is.
InnerCatch(err) ==
    IF err.code \in {"ConnectionRefused", "ECONNREFUSED"}
    THEN [code |-> NoValue,
          message |-> <<"Cannot connect to OpenRouter API at ">> \o baseURL
                         \o <<"/embeddings. Please check your network connection and API configuration.">>]
    ELSE IF Includes(err.message, <<"4", "0", "1">>)
    THEN [code |-> NoValue,
          message |-> <<"Invalid OpenRouter API key. Please check your OPENROUTER_API_KEY configuration.">>]
    ELSE IF Includes(err.message, <<"4", "2", "9">>)
    THEN [code |-> NoValue,
          message |-> <<"OpenRouter API rate limit exceeded. Please try again later.">>]
    ELSE err

\* retryWithBackoff: const isRetryable = ...
IsRetryable(err) ==
    \/ Includes(err.message, <<"fetch failed">>)
    \/ Includes(err.message, <<"ECONNREFUSED">>)
    \/ Includes(err.message, <<"4", "2", "9">>)
    \/ Includes(err.message, <<"5">>)

\* throw new Error('OPENROUTER_API_KEY must be configured ...')
ConfigurationError ==
    <<"OPENROUTER_API_KEY must be configured for API embedding backend">>

\* No call in flight.  requests and waits are history: the provider requests
\* issued and the backoff delays waited by the call.
IdleEmbed == [pc |-> "idle", retries |-> 0, delay |-> 0, outcome |-> "none",
              error |-> <<>>, failure |-> NoFailure, requests |-> 0,
              waits |-> <<>>]

\* retryWithBackoff(fn) with its default arguments: fn is called, and its
\* fetch is awaited.
FirstAttempt ==
    [IdleEmbed EXCEPT !.pc = "fetch", !.retries = maxRetries,
                      !.delay = BaseDelay, !.requests = 1]

\* Mutant of GenerateEmbeddingCall: the API key is not tested.
GenerateEmbeddingCallUnchecked ==
    /\ embedCall.pc = "idle"
    /\ embedCall' = FirstAttempt
    /\ UNCHANGED <<apiKey, baseURL, maxRetries>>

\* generateEmbedding(text): the backend is 'api', so generateAPIEmbedding
\* runs: without an API key it throws, otherwise the first attempt starts.
GenerateEmbeddingCall ==
    /\ embedCall.pc = "idle"
    /\ embedCall' = IF ~apiKey
                    THEN [IdleEmbed EXCEPT !.pc = "done", !.outcome = "threw",
                                           !.error = ConfigurationError]
                    ELSE FirstAttempt
    /\ UNCHANGED <<apiKey, baseURL, maxRetries>>

\* The catch of retryWithBackoff for the error the retried function threw:
\* rethrow with no retry left or for an error that is not retryable,
\* otherwise wait for `delay`.
RetryOrThrow(rec, failure) ==
    LET err == InnerCatch(ErrorOf(failure))
    IN  IF rec.retries = 0 \/ ~IsRetryable(err)
        THEN [rec EXCEPT !.pc = "done", !.outcome = "threw",
                         !.error = err.message, !.failure = failure]
        ELSE [rec EXCEPT !.pc = "wait", !.error = err.message,
                         !.failure = failure, !.waits = Append(@, rec.delay)]

\* The provider call settles: with an embedding, or with a failure.
FetchResolve ==
    /\ embedCall.pc = "fetch"
    /\ \/ embedCall' = [embedCall EXCEPT !.pc = "done", !.outcome = "returned",
                                         !.error = <<>>, !.failure = NoFailure]
       \/ \E failure \in Failures : embedCall' = RetryOrThrow(embedCall, failure)
    /\ UNCHANGED <<apiKey, baseURL, maxRetries>>

\* Mutant of BackoffElapses: the retry does not use up one of the retries.
BackoffElapsesUncounted ==
    /\ embedCall.pc = "wait"
    /\ embedCall.requests <= MaxRetries + 1
    /\ embedCall' = [embedCall EXCEPT !.pc = "fetch", !.delay = @ * 2,
                                      !.requests = @ + 1]
    /\ UNCHANGED <<apiKey, baseURL, maxRetries>>

\* The backoff timer fires:
\*   return this.retryWithBackoff(fn, retries - 1, delay * 2)
BackoffElapses ==
    /\ embedCall.pc = "wait"
    /\ embedCall' = [embedCall EXCEPT !.pc = "fetch", !.retries = @ - 1,
                                      !.delay = @ * 2, !.requests = @ + 1]
    /\ UNCHANGED <<apiKey, baseURL, maxRetries>>

\* The caller has consumed the embedding (or the error).
EmbeddingSettled ==
    /\ embedCall.pc = "done"
    /\ embedCall' = IdleEmbed
    /\ UNCHANGED <<apiKey, baseURL, maxRetries>>

-----------------------------------------------------------------------------
(*                        LocalEmbeddingService                            *)

\* The largest number of pipeline() invocations the model follows.
MaxLoads == 3

\* The concurrent callers of one LocalEmbeddingService, and its methods.
LocalCallers == {"l1", "l2"}
LocalOps == {"initialize", "generateEmbedding", "generateBatchEmbeddings"}

\* No call in flight.  load is the pipeline() invocation the call made, 0
\* when it made none.
IdleLocal == [op |-> "none", pc |-> "idle", outcome |-> "none", load |-> 0]

\* initialize() has returned to the method that called it: initialize itself
\* is done, the embedding methods go on to `await this.extractor(...)`.
AfterInitialize(rec) ==
    IF rec.op = "initialize"
    THEN [rec EXCEPT !.pc = "done", !.outcome = "returned"]
    ELSE [rec EXCEPT !.pc = "extract"]

\* Mutant of LocalCall: initialize() does not test this.initialized.
LocalCallReloads(c, op) ==
    /\ localCall[c].pc = "idle"
    /\ pipelineCalls < MaxLoads
    /\ pipelineCalls' = pipelineCalls + 1
    /\ localCall' = [localCall EXCEPT ![c] =
                        [IdleLocal EXCEPT !.op = op, !.pc = "load",
                                          !.load = pipelineCalls + 1]]
    /\ UNCHANGED <<extractor, initialized>>

\* A call of initialize(), generateEmbedding(text) or
\* generateBatchEmbeddings(texts): with this.initialized set, no model is
\* loaded; otherwise initialize() invokes pipeline() and awaits it.
LocalCall(c, op) ==
    /\ localCall[c].pc = "idle"
    /\ IF initialized
       THEN /\ localCall' = [localCall EXCEPT ![c] =
                                AfterInitialize([IdleLocal EXCEPT !.op = op])]
            /\ UNCHANGED pipelineCalls
       ELSE /\ pipelineCalls < MaxLoads
            /\ pipelineCalls' = pipelineCalls + 1
            /\ localCall' = [localCall EXCEPT ![c] =
                                [IdleLocal EXCEPT !.op = op, !.pc = "load",
                                                  !.load = pipelineCalls + 1]]
    /\ UNCHANGED <<extractor, initialized>>

\* pipeline() settles for caller c: on success the extractor is stored and
\* this.initialized set; on failure initialize() throws a new Error.
LoadResolve(c) ==
    /\ localCall[c].pc = "load"
    /\ \E loadOk \in BOOLEAN :
          IF loadOk
          THEN /\ extractor' = localCall[c].load
               /\ initialized' = TRUE
               /\ localCall' = [localCall EXCEPT ![c] = AfterInitialize(localCall[c])]
          ELSE /\ localCall' = [localCall EXCEPT ![c].pc = "done",
                                                 ![c].outcome = "threw"]
               /\ UNCHANGED <<extractor, initialized>>
    /\ UNCHANGED pipelineCalls

\* `await this.extractor(...)` settles: the embedding is returned, or a new
\* Error is thrown.
ExtractResolve(c) ==
    /\ localCall[c].pc = "extract"
    /\ \E extractOk \in BOOLEAN :
          localCall' = [localCall EXCEPT ![c].pc = "done",
                           ![c].outcome = IF extractOk THEN "returned" ELSE "threw"]
    /\ UNCHANGED <<extractor, initialized, pipelineCalls>>

\* The caller has consumed the result (or the error).
LocalSettled(c) ==
    /\ localCall[c].pc = "done"
    /\ localCall' = [localCall EXCEPT ![c] = IdleLocal]
    /\ UNCHANGED <<extractor, initialized, pipelineCalls>>

-----------------------------------------------------------------------------
(* ConfigurationService (configuration-service.js), POST /configure        *)
(* (lines 79-110 of the routes) and the places that read the settings.     *)
(* A model identifier is a sequence of pieces, cut so that every name the  *)
(* size tables search for is a run of whole pieces: model.includes(name)   *)
(* is then a search for a sub-sequence.  A similarity threshold is a       *)
(* percentage, as elsewhere.  An unset environment variable and an absent  *)
(* or falsy request field are 0, or the empty identifier.                  *)

SmallModel == <<"openai/", "text-embedding-3-", "small">>
LargeModel == <<"openai/", "text-embedding-3-", "large">>
VoyageLiteModel == <<"voyageai/", "voyage-3", "-lite">>

\* The identifiers the size tables are compared on: the twelve names the
\* tables know, and identifiers they do not know.
ModelIds ==
    { SmallModel, LargeModel,
      <<"openai/", "text-embedding-ada-002">>, <<"openai/", "text-embedding-ada-001">>,
      <<"voyageai/", "voyage-3", "-large">>, <<"voyageai/", "voyage-3">>,
      <<"voyageai/", "voyage-2">>, <<"voyageai/", "voyage-code-2">>,
      <<"cohere/", "embed-english-v3.0">>, <<"cohere/", "embed-multilingual-v3.0">>,
      <<"cohere/", "embed-english-v2.0">>, <<"cohere/", "embed-english-light-v2.0">>,
      VoyageLiteModel, <<"cohere/", "embed-english-light-v3.0">>,
      <<"text-embedding-3-", "small">>, <<>> }

\* process.env of a deployment: each variable unset or set.
ProcessEnvs ==
    [RAG_TOP_K : {0, 2}, RAG_SIMILARITY_THRESHOLD : {0, 90},
     EMBEDDING_LLM_MODEL : {<<>>, LargeModel, VoyageLiteModel}]

NoEnv == [RAG_TOP_K |-> 0, RAG_SIMILARITY_THRESHOLD |-> 0, EMBEDDING_LLM_MODEL |-> <<>>]

\* The constructor of ConfigurationService: the settings with their defaults.
ConfigFromEnv(env) ==
    [RAG_TOP_K |-> IF env.RAG_TOP_K # 0 THEN env.RAG_TOP_K ELSE 5,
     RAG_SIMILARITY_THRESHOLD |->
         IF env.RAG_SIMILARITY_THRESHOLD # 0 THEN env.RAG_SIMILARITY_THRESHOLD ELSE 60,
     EMBEDDING_LLM_MODEL |->
         IF env.EMBEDDING_LLM_MODEL # <<>> THEN env.EMBEDDING_LLM_MODEL ELSE SmallModel]

\* The bodies of POST /configure.
ConfigBodies == [topK : {0, 1}, threshold : {0, 50}, llmModel : {<<>>, LargeModel}]

\* POST /configure: each truthy field is set on defaultConfig; set() writes
\* the config object and nothing else.
Configure(body) ==
    /\ config' =
          [RAG_TOP_K |-> IF body.topK # 0 THEN body.topK ELSE config.RAG_TOP_K,
           RAG_SIMILARITY_THRESHOLD |->
               IF body.threshold # 0 THEN body.threshold
               ELSE config.RAG_SIMILARITY_THRESHOLD,
           EMBEDDING_LLM_MODEL |->
               IF body.llmModel # <<>> THEN body.llmModel
               ELSE config.EMBEDDING_LLM_MODEL]
    /\ configured' = configured \cup {k \in {"topK", "threshold", "llmModel"} :
                                         \/ k = "topK" /\ body.topK # 0
                                         \/ k = "threshold" /\ body.threshold # 0
                                         \/ k = "llmModel" /\ body.llmModel # <<>>}
    /\ UNCHANGED processEnv

\* retrieveSimilarExamples(task) without options: topK and threshold are
\* parseInt(getEnv('RAG_TOP_K') || '3') and
\* parseFloat(getEnv('RAG_SIMILARITY_THRESHOLD') || '0.6'), and getEnv reads
\* process.env.
DefaultOptions(env) ==
    Query(NoValue, NoValue,
          IF env.RAG_TOP_K # 0 THEN env.RAG_TOP_K ELSE 3,
          IF env.RAG_SIMILARITY_THRESHOLD # 0 THEN env.RAG_SIMILARITY_THRESHOLD ELSE 60)

RetrieveWithDefaults(c) == RetrieveExamplesCall(c, DefaultOptions(processEnv))

\* The model of an embedding request: options?.model || this.defaultModel,
\* and the callers of the retrieval service pass no options.  defaultModel
\* is getEnv('EMBEDDING_LLM_MODEL') || 'openai/text-embedding-3-small', read
\* once by the constructor of EmbeddingService.
DefaultModel(env) ==
    IF env.EMBEDDING_LLM_MODEL # <<>> THEN env.EMBEDDING_LLM_MODEL ELSE SmallModel

\* QdrantService.getVectorSizeForModel
QdrantVectorSize(model) ==
    IF Includes(model, <<"text-embedding-3-", "large">>) THEN 3072
    ELSE IF \/ Includes(model, <<"text-embedding-3-", "small">>)
            \/ Includes(model, <<"text-embedding-ada-002">>) THEN 1536
    ELSE IF Includes(model, <<"text-embedding-ada-001">>) THEN 768
    ELSE IF Includes(model, <<"voyage-3", "-large">>) THEN 1024
    ELSE IF Includes(model, <<"voyage-3">>) THEN 1024
    ELSE IF Includes(model, <<"voyage-2">>) THEN 1024
    ELSE IF Includes(model, <<"voyage-code-2">>) THEN 1536
    ELSE IF \/ Includes(model, <<"embed-english-v3.0">>)
            \/ Includes(model, <<"embed-multilingual-v3.0">>) THEN 1024
    ELSE IF Includes(model, <<"embed-english-v2.0">>) THEN 4096
    ELSE IF Includes(model, <<"embed-english-light-v2.0">>) THEN 1024
    ELSE 1536

\* CodeRetrievalService.getVectorSizeForModel
RetrievalVectorSize(model) ==
    IF Includes(model, <<"text-embedding-3-", "large">>) THEN 3072
    ELSE IF \/ Includes(model, <<"text-embedding-3-", "small">>)
            \/ Includes(model, <<"text-embedding-ada-002">>) THEN 1536
    ELSE IF Includes(model, <<"text-embedding-ada-001">>) THEN 768
    ELSE IF Includes(model, <<"voyage-3", "-large">>) THEN 1024
    ELSE IF Includes(model, <<"voyage-3">>) THEN 1024
    ELSE IF Includes(model, <<"voyage-2">>) THEN 1024
    ELSE IF Includes(model, <<"voyage-code-2">>) THEN 1536
    ELSE IF \/ Includes(model, <<"embed-english-v3.0">>)
            \/ Includes(model, <<"embed-multilingual-v3.0">>) THEN 1024
    ELSE IF Includes(model, <<"embed-english-v2.0">>) THEN 4096
    ELSE IF Includes(model, <<"embed-english-light-v2.0">>) THEN 1024
    ELSE 1536

\* this.vectorSize of the QdrantService the retrieval service constructs:
\* config?.vectorSize || getVectorSizeForModel(embeddingModel), where both
\* arguments come from config.get('EMBEDDING_LLM_MODEL') at construction.
ServiceVectorSize(env) ==
    LET model == ConfigFromEnv(env).EMBEDDING_LLM_MODEL
        size == RetrievalVectorSize(model)
    IN  IF size # 0 THEN size ELSE QdrantVectorSize(model)

\* The sizes a collection left by a deployment of this service can have.
CollectionSizes == {ServiceVectorSize(env) : env \in ProcessEnvs}

\* data.data[0].embedding.length: the length of the vectors the provider
\* returns for a model.  The lengths of the models the service lists are
\* the ones it documents; for another model the length is the provider's.
ProviderDimensions(model) ==
    IF model = SmallModel THEN {1536}
    ELSE IF model = LargeModel THEN {3072}
    ELSE {512, 1024, 1536}

-----------------------------------------------------------------------------
(* Deletion by age: CodeRetrievalService.clearOldExamples (lines 358-371)  *)
(* and QdrantService.clearOldPoints (lines 244-262).  A row gets its       *)
(* timestamp from the INSERT and a point gets Date.now() in the same block *)
(* of storeExample, and ids are AUTOINCREMENT: what is older than a cutoff *)
(* is what has an id up to some id, and the cutoff is given as that id.    *)

\* The operation_id values the server answers a delete with.
MaxOperationId == 3

IdleClear == [pc |-> "idle", op |-> "none", cutoff |-> 0, outcome |-> "none",
              value |-> 0]

\* DELETE FROM code_examples WHERE timestamp < datetime('now', '-N days')
OlderExamples(rows, cutoff) == {r \in rows : r.id <= cutoff}

\* clearOldExamples(daysToKeep): no await; the DELETE runs, or throws, and
\* `result.changes || 0` is returned.
ClearOldExamples(cutoff) ==
    /\ clearCall.pc = "idle"
    /\ \E ok \in BOOLEAN :
          IF ok
          THEN LET old == OlderExamples(code_examples, cutoff)
                   changes == Cardinality(old)
               IN  /\ code_examples' = code_examples \ old
                   /\ clearCall' = [pc |-> "done", op |-> "examples",
                                    cutoff |-> cutoff, outcome |-> "returned",
                                    value |-> IF changes # 0 THEN changes ELSE 0]
          ELSE /\ clearCall' = [pc |-> "done", op |-> "examples", cutoff |-> cutoff,
                                outcome |-> "threw", value |-> 0]
               /\ UNCHANGED code_examples
    /\ UNCHANGED <<nextRowId, qdrantPoints, call>>

\* clearOldPoints(days): the cutoff is computed and `await client.delete(...)`.
ClearOldPointsCall(cutoff) ==
    /\ clearCall.pc = "idle"
    /\ clearCall' = [IdleClear EXCEPT !.pc = "delete", !.op = "points",
                                      !.cutoff = cutoff]
    /\ UNCHANGED ledgerVars

\* filter: payload.timestamp < cutoffDate
OlderPoints(points, cutoff) == {p \in points : p.id <= cutoff}

\* client.delete settles: the server has deleted the points that match and
\* answers {operation_id, status}; `response?.operation_id || 0` is returned.
ClearOldPointsResolve ==
    /\ clearCall.pc = "delete"
    /\ \E ok \in BOOLEAN, operation_id \in 0..MaxOperationId :
          IF ok
          THEN /\ qdrantPoints' = qdrantPoints \ OlderPoints(qdrantPoints, clearCall.cutoff)
               /\ clearCall' = [clearCall EXCEPT !.pc = "done", !.outcome = "returned",
                                  !.value = IF operation_id # 0 THEN operation_id ELSE 0]
          ELSE /\ clearCall' = [clearCall EXCEPT !.pc = "done", !.outcome = "threw"]
               /\ UNCHANGED qdrantPoints
    /\ UNCHANGED <<code_examples, nextRowId, call>>

\* The caller has consumed the count (or the error).
ClearSettled ==
    /\ clearCall.pc = "done"
    /\ clearCall' = IdleClear
    /\ UNCHANGED ledgerVars

-----------------------------------------------------------------------------
(* cosineSimilarity(a, b) of EmbeddingService (embedding.service.js, lines *)
(* 310-323) and of CodebaseIndexerService (code-retrieval.service.ts,      *)
(* lines 1031-1047): the same text twice.  The vectors have integer        *)
(* entries, so the three sums are exact; the quotient                      *)
(* dotProduct / (sqrt(normA) * sqrt(normB)) is kept as its three sums and  *)
(* compared by cross-multiplication.                                       *)

\* The longest vector drawn and the largest absolute value of an entry.
MaxDim == 2
MaxEntry == 2

Vectors == UNION {[1..n -> (0 - MaxEntry)..MaxEntry] : n \in 0..MaxDim}

IdleCosine == [a |-> <<>>, b |-> <<>>, outcome |-> "none",
               dotProduct |-> 0, normA |-> 0, normB |-> 0]

\* A loop that starts at the second entry.
RECURSIVE SumProductsFromSecond(_, _, _)
SumProductsFromSecond(a, b, n) ==
    IF n <= 1 THEN 0 ELSE SumProductsFromSecond(a, b, n - 1) + a[n] * b[n]

\* for (let i = 0; i < a.length; i++) sum += a[i] * b[i]
RECURSIVE SumProducts(_, _, _)
SumProducts(a, b, n) ==
    IF n = 0 THEN 0 ELSE SumProducts(a, b, n - 1) + a[n] * b[n]

\* cosineSimilarity(a, b): throws on different lengths; otherwise the three
\* sums and their quotient, which is NaN (0 / 0) when a norm is 0.
CosineSimilarity(a, b) ==
    IF Len(a) # Len(b)
    THEN [IdleCosine EXCEPT !.a = a, !.b = b, !.outcome = "threw"]
    ELSE LET dotProduct == SumProducts(a, b, Len(a))
             normA == SumProducts(a, a, Len(a))
             normB == SumProducts(b, b, Len(a))
         IN  [a |-> a, b |-> b,
              outcome |-> IF normA * normB = 0 THEN "NaN" ELSE "number",
              dotProduct |-> dotProduct, normA |-> normA, normB |-> normB]

CosineSimilarityCall(a, b) == cosine' = CosineSimilarity(a, b)

-----------------------------------------------------------------------------
(* EmbeddingService.generateBatchEmbeddings (embedding.service.js, lines   *)
(* 269-306).  The backend is 'api' and localService is null (lines 22 and  *)
(* 45-51), so only the else branch runs: the texts are cut in sub-batches  *)
(* of 10, each sub-batch is embedded by Promise.all over one               *)
(* generateEmbedding call per text, and the loop awaits a sub-batch before *)
(* it starts the next.  One generateEmbedding call, with its retries, is   *)
(* one slot here: it is in flight until it resolves or fails for good.     *)

\* The longest texts argument drawn.
MaxBatchLen == 11

\* const batchSize = 10
EmbedBatchSize == 10

\* The texts arguments: every length up to the bound, the texts cycling
\* through t1, t2, t3 from any of them.
BatchInputs ==
    {[k \in 1..n |-> CASE (k + r) % 3 = 0 -> "t1"
                       [] (k + r) % 3 = 1 -> "t2"
                       [] OTHER           -> "t3"] : n \in 0..MaxBatchLen, r \in 0..2}

\* No call yet.  i and results are the loop's locals, slots the promises
\* handed to Promise.all (the text each was called with, and its state);
\* issued and failed are history: the positions in texts for which
\* generateEmbedding was called, and those whose call failed.
IdleBatch ==
    [pc |-> "idle", texts |-> <<>>, i |-> 0, slots |-> <<>>, results |-> <<>>,
     value |-> <<>>, issued |-> {}, failed |-> {}]

\* A slicing that always takes the first sub-batch.
SliceFromStart(texts, i) ==
    SubSeq(texts, 1, Min(EmbedBatchSize, Len(texts)))

\* texts.slice(i, i + batchSize)
Slice(texts, i) ==
    SubSeq(texts, i + 1, Min(i + EmbedBatchSize, Len(texts)))

\* The loop head: `i < texts.length` starts the next sub-batch, one
\* generateEmbedding call per text of the slice, all in the same turn;
\* otherwise `return results`.
LoopHead(rec) ==
    IF rec.i < Len(rec.texts)
    THEN LET batch == Slice(rec.texts, rec.i)
         IN [rec EXCEPT !.pc = "await",
                        !.slots = [k \in 1..Len(batch) |->
                                     [st |-> "inflight", text |-> batch[k]]],
                        !.issued = @ \cup {rec.i + k : k \in 1..Len(batch)}]
    ELSE [rec EXCEPT !.pc = "returned", !.slots = <<>>, !.value = rec.results]

\* generateBatchEmbeddings(texts, options) is called.
GenerateBatchEmbeddingsCall ==
    /\ batchCall.pc = "idle"
    /\ \E texts \in BatchInputs :
          batchCall' = LoopHead([IdleBatch EXCEPT !.texts = texts])

\* The k-th generateEmbedding call of the sub-batch resolves.  When it is
\* the last one, Promise.all resolves with the values in the order of the
\* slice, results.push(...batchResults) appends them and the loop goes on.
BatchEmbeddingResolves(k) ==
    /\ k \in DOMAIN batchCall.slots
    /\ batchCall.slots[k].st = "inflight"
    /\ LET rec == [batchCall EXCEPT !.slots[k].st = "ok"]
           batchResults == [j \in DOMAIN rec.slots |-> Embedding(rec.slots[j].text)]
       IN batchCall' =
            IF rec.pc = "await" /\ \A j \in DOMAIN rec.slots : rec.slots[j].st = "ok"
            THEN LoopHead([rec EXCEPT !.results = @ \o batchResults,
                                      !.i = @ + EmbedBatchSize])
            ELSE rec

\* A loop that drops a failed embedding and goes on with what is left.
BatchEmbeddingFailsSkipped(k) ==
    /\ k \in DOMAIN batchCall.slots
    /\ batchCall.slots[k].st = "inflight"
    /\ LET rec == [batchCall EXCEPT !.slots[k].st = "failed",
                                    !.failed = @ \cup {batchCall.i + k}]
           done == {j \in DOMAIN rec.slots : rec.slots[j].st = "ok"}
           kept == SelectSeq([j \in DOMAIN rec.slots |-> j], LAMBDA j : j \in done)
       IN batchCall' =
            IF rec.pc = "await" /\ \A j \in DOMAIN rec.slots : rec.slots[j].st # "inflight"
            THEN LoopHead([rec EXCEPT
                     !.results = @ \o [j \in DOMAIN kept |-> Embedding(rec.slots[kept[j]].text)],
                     !.i = @ + EmbedBatchSize])
            ELSE rec

\* The k-th generateEmbedding call of the sub-batch fails, its retries used
\* up.  Promise.all rejects at the first failure and nothing catches it:
\* the call throws, its results are dropped with its frame and the loop
\* never reaches the next sub-batch.  The other calls of the sub-batch go
\* on in the background.
BatchEmbeddingFails(k) ==
    /\ k \in DOMAIN batchCall.slots
    /\ batchCall.slots[k].st = "inflight"
    /\ batchCall' = [batchCall EXCEPT
          !.slots[k].st = "failed",
          !.failed = @ \cup {batchCall.i + k},
          !.pc = IF @ = "await" THEN "thrown" ELSE @,
          !.results = IF batchCall.pc = "await" THEN <<>> ELSE @]

-----------------------------------------------------------------------------
(* QdrantService (src/unnamed/part_007).  The server is the environment:   *)
(* it holds the collection or not, refuses to create a collection that     *)
(* exists, and any request may fail because it is unavailable.             *)

\* The create-collection requests after which no further call is started.
MaxCreates == 3

\* The callers of ensureCollectionExists(): CodeRetrievalService.initialize()
\* of the service instances that share the server.
EnsureCallers == {"e1", "e2"}

IdleEnsure == [pc |-> "idle", outcome |-> "none", error |-> NoValue]

\* ensureCollectionExists(): synchronous up to `await getCollections()`.
EnsureCollectionExistsCall(c) ==
    /\ ensureCall[c].pc = "idle"
    /\ createRequests < MaxCreates
    /\ ensureCall' = [ensureCall EXCEPT ![c].pc = "list"]
    /\ UNCHANGED <<collectionExists, createRequests, hybridCall, collectionSize,
                   sentLength>>

\* getCollections settles.  A failure is logged and rethrown.  Otherwise
\* `exists` is what the server listed: when the collection is listed the
\* call returns, when it is not createCollection() sends the request.
GetCollectionsResolve(c) ==
    /\ ensureCall[c].pc = "list"
    /\ \E ok \in BOOLEAN :
          IF ~ok
          THEN /\ ensureCall' = [ensureCall EXCEPT ![c] =
                      [pc |-> "done", outcome |-> "threw", error |-> "unavailable"]]
               /\ UNCHANGED createRequests
          ELSE IF collectionExists
          THEN /\ ensureCall' = [ensureCall EXCEPT ![c] =
                      [pc |-> "done", outcome |-> "returned", error |-> NoValue]]
               /\ UNCHANGED createRequests
          ELSE /\ ensureCall' = [ensureCall EXCEPT ![c].pc = "create"]
               /\ createRequests' = createRequests + 1
    /\ UNCHANGED <<collectionExists, hybridCall, collectionSize, sentLength>>

\* client.createCollection settles: the server creates the collection, or
\* answers that it already exists, or is unavailable.  createCollection()
\* handles no error and ensureCollectionExists logs and rethrows each.
CreateCollectionResolve(c) ==
    /\ ensureCall[c].pc = "create"
    /\ \E ok \in BOOLEAN :
          IF ~ok
          THEN /\ ensureCall' = [ensureCall EXCEPT ![c] =
                      [pc |-> "done", outcome |-> "threw", error |-> "unavailable"]]
               /\ UNCHANGED <<collectionExists, collectionSize>>
          ELSE IF collectionExists
          THEN /\ ensureCall' = [ensureCall EXCEPT ![c] =
                      [pc |-> "done", outcome |-> "threw", error |-> "already exists"]]
               /\ UNCHANGED <<collectionExists, collectionSize>>
          ELSE /\ ensureCall' = [ensureCall EXCEPT ![c] =
                      [pc |-> "done", outcome |-> "returned", error |-> NoValue]]
               /\ collectionExists' = TRUE
               /\ collectionSize' = ServiceVectorSize(processEnv)
    /\ UNCHANGED <<createRequests, hybridCall, sentLength>>

\* The caller has consumed the outcome and may call again.
EnsureSettled(c) ==
    /\ ensureCall[c].pc = "done"
    /\ ensureCall' = [ensureCall EXCEPT ![c] = IdleEnsure]
    /\ UNCHANGED <<collectionExists, createRequests, hybridCall, collectionSize,
                   sentLength>>

----
(* searchHybrid(denseVector, sparseVector, options)                        *)

\* The sparseVector argument: left out, or a vector with these indices.
SparseVectors ==
    {[given |-> FALSE, indices |-> {}], [given |-> TRUE, indices |-> {}],
     [given |-> TRUE, indices |-> {1}]}

IdleHybrid == [pc |-> "idle", q |-> NoQuery,
               sparse |-> [given |-> FALSE, indices |-> {}],
               hybridFailed |-> FALSE, outcome |-> "none", error |-> NoValue,
               value |-> <<>>]

\* The indices of the sparse vector a point was stored with: storeExample
\* builds `vector: {dense: embedding}`, a point without sparse vector.
SparseIndices(p) == {}

\* client.query with a sparse prefetch rescored by the dense vector: the
\* prefetch holds the points whose sparse vector shares an index with the
\* query's (its limit, topK * 2, is not reached by the points of this
\* model), the filter and the dense ranking pick `limit: topK` of them.
HybridQuery(points, q, sparse) ==
    Take(RankDesc({p \in points : /\ SparseIndices(p) \cap sparse.indices # {}
                                   /\ MatchesFilter(p, q)},
                  Embedding(q.task), FALSE),
         IF q.topK = 0 THEN SearchDenseDefaultTopK ELSE q.topK)

\* The call: without a sparse vector, or with an empty one, it is the call
\* of searchDense; otherwise `await this.client.query(...)`.
SearchHybridCall(q, sparse) ==
    /\ hybridCall.pc = "idle"
    /\ hybridCall' = [IdleHybrid EXCEPT
          !.q = q, !.sparse = sparse,
          !.pc = IF ~sparse.given \/ sparse.indices = {} THEN "dense" ELSE "hybrid"]
    /\ UNCHANGED <<collectionExists, createRequests, ensureCall, collectionSize,
                   sentLength>>

\* A searchHybrid without catch: the failure of the query is thrown.
HybridQueryResolveRethrows ==
    /\ hybridCall.pc = "hybrid"
    /\ \E ok \in BOOLEAN :
          hybridCall' =
             IF ok
             THEN [hybridCall EXCEPT !.pc = "done", !.outcome = "returned",
                      !.value = Ids(HybridQuery(qdrantPoints, hybridCall.q,
                                                hybridCall.sparse))]
             ELSE [hybridCall EXCEPT !.pc = "done", !.outcome = "threw",
                      !.hybridFailed = TRUE, !.error = "hybrid"]
    /\ UNCHANGED <<collectionExists, createRequests, ensureCall, collectionSize,
                   sentLength>>

\* client.query settles.  Its points are returned; its failure is caught,
\* logged and answered by `return this.searchDense(denseVector, options)`.
HybridQueryResolve ==
    /\ hybridCall.pc = "hybrid"
    /\ \E ok \in BOOLEAN :
          hybridCall' =
             IF ok
             THEN [hybridCall EXCEPT !.pc = "done", !.outcome = "returned",
                      !.value = Ids(HybridQuery(qdrantPoints, hybridCall.q,
                                                hybridCall.sparse))]
             ELSE [hybridCall EXCEPT !.pc = "dense", !.hybridFailed = TRUE]
    /\ UNCHANGED <<collectionExists, createRequests, ensureCall, collectionSize,
                   sentLength>>

\* The searchDense the call fell back to settles: its result is the result
\* of searchHybrid, and so is its failure.
FallbackResolve ==
    /\ hybridCall.pc = "dense"
    /\ \E ok \in BOOLEAN :
          hybridCall' =
             IF ok
             THEN [hybridCall EXCEPT !.pc = "done", !.outcome = "returned",
                      !.value = Ids(SearchDense(qdrantPoints, hybridCall.q))]
             ELSE [hybridCall EXCEPT !.pc = "done", !.outcome = "threw",
                      !.error = "dense"]
    /\ UNCHANGED <<collectionExists, createRequests, ensureCall, collectionSize,
                   sentLength>>

HybridSettled ==
    /\ hybridCall.pc = "done"
    /\ hybridCall' = IdleHybrid
    /\ UNCHANGED <<collectionExists, createRequests, ensureCall, collectionSize,
                   sentLength>>

-----------------------------------------------------------------------------
(* The readers of the chunk store: searchSimilar(query, options) and       *)
(* getStats() (code-retrieval.service.ts, lines 927-1026).                 *)

\* The options of searchSimilar, with 0 and NoValue for a property left out
\* or supplied as 0 (the code treats both alike).
SearchQueries ==
    {[task |-> "t1", topK |-> k, threshold |-> t, language |-> l] :
        k \in {1, 2}, t \in {0, 50, 90}, l \in {NoValue, "ts", "py"}}

\* options?.topK || 5 and options?.threshold || 0.7
SearchSimilarDefaultTopK == 5
SearchSimilarDefaultThreshold == 70

IdleReader == [op |-> "none", pc |-> "idle",
               q |-> [task |-> NoValue, topK |-> 0, threshold |-> 0,
                      language |-> NoValue],
               degraded |-> FALSE,
               value |-> <<>>, stats |-> NoStats]

\* The text of chunk k of file f, which its embedding was computed from.
ChunkText(f, k) ==
    IF f = "a.ts" THEN (IF k = 1 THEN "t1" ELSE "t3") ELSE "t2"

\* The rows `SELECT ... FROM code_chunks [WHERE language = ?]` returns, as
\* candidates of the ranking: the language of a row is that of its file's
\* extension, .ts for every file of the tree.
ChunkCandidates(rows, language) ==
    {[id |-> (IF r.file = "a.ts" THEN 0 ELSE MaxChunks) + r.chunk,
      task |-> ChunkText(r.file, r.chunk)] :
        r \in {x \in rows : language # NoValue => language = "ts"}}

\* results.filter(r => r.similarity >= threshold)
\*        .sort((a, b) => b.similarity - a.similarity).slice(0, topK)
SearchSimilarResult(rows, q) ==
    Ids(FindMostSimilar(Embedding(q.task), ChunkCandidates(rows, q.language),
                        IF q.topK = 0 THEN SearchSimilarDefaultTopK ELSE q.topK,
                        IF q.threshold = 0 THEN SearchSimilarDefaultThreshold
                        ELSE q.threshold))

\* searchSimilar is called: synchronous up to `await generateEmbedding(query)`.
SearchSimilarCall(q) ==
    /\ reader.pc = "idle"
    /\ reader' = [IdleReader EXCEPT !.op = "search", !.pc = "embed", !.q = q]
    /\ UNCHANGED replaced

\* generateEmbedding settles.  A failure is logged and [] returned; on
\* success the SELECT, the ranking and the return run in the same turn.
SearchSimilarResolve ==
    /\ reader.op = "search" /\ reader.pc = "embed"
    /\ \E embedOk \in BOOLEAN :
          reader' = IF embedOk
                    THEN [reader EXCEPT !.pc = "done",
                             !.value = SearchSimilarResult(code_chunks, reader.q)]
                    ELSE [reader EXCEPT !.pc = "done", !.degraded = TRUE]
    /\ UNCHANGED replaced

\* getStats(): synchronous.
GetStatsCall ==
    /\ reader.pc = "idle"
    /\ reader' = [IdleReader EXCEPT !.op = "stats", !.pc = "done", !.stats = GetStats]
    /\ UNCHANGED replaced

ReaderSettled ==
    /\ reader.pc = "done"
    /\ reader' = IdleReader
    /\ UNCHANGED replaced

-----------------------------------------------------------------------------
(* The state after construction: an empty ledger and an empty index over a *)
(* project that holds a.ts (one chunk) and not yet b.ts; no watcher, no    *)
(* pass, no timer.                                                         *)
Init ==
    /\ code_examples = {}
    /\ nextRowId = 1
    /\ qdrantPoints = {}
    /\ call = [c \in Clients |-> IdleCall]
    /\ fsExists = [f \in Files |-> f = "a.ts"]
    /\ fsMtime = [f \in Files |-> IF f = "a.ts" THEN 1 ELSE 0]
    /\ fsContent = [f \in Files |->
                       [parses |-> TRUE, chunks |-> IF f = "a.ts" THEN {1} ELSE {}]]
    /\ code_chunks = {}
    /\ index_stats = [total_files |-> 0, total_chunks |-> 0,
                      last_indexed |-> 0, index_duration |-> 0]
    /\ isIndexing = FALSE
    /\ indexQueue = <<>>
    /\ debounceTimer = FALSE
    /\ watcher = FALSE
    /\ openWatchers = 0
    /\ pendingTimers = {}
    /\ quiet = DebounceTicks
    /\ pass = [c \in PassCallers |-> IdlePass]
    /\ drain = [d \in DrainIds |-> IdleDrain]
    /\ task = [x \in Owners \X Files |-> IdleTask]
    /\ completedAt = [f \in Files |-> 0]
    /\ apiKey = TRUE
    /\ baseURL = DefaultBaseURL
    /\ maxRetries = DefaultMaxRetries
    /\ embedCall = IdleEmbed
    /\ extractor = 0
    /\ initialized = FALSE
    /\ pipelineCalls = 0
    /\ localCall = [c \in LocalCallers |-> IdleLocal]
    /\ batchCall = IdleBatch
    /\ collectionExists = FALSE
    /\ createRequests = 0
    /\ ensureCall = [c \in EnsureCallers |-> IdleEnsure]
    /\ hybridCall = IdleHybrid
    /\ collectionSize = 0
    /\ sentLength = [c \in Clients |-> 0]
    /\ reader = IdleReader
    /\ replaced = [f \in Files |-> {}]
    /\ processEnv = NoEnv
    /\ config = ConfigFromEnv(NoEnv)
    /\ configured = {}
    /\ clearCall = IdleClear
    /\ cosine = IdleCosine

\* The next step of owner o's indexFile(f): the promise it awaits settles.
TaskStep(o, f) ==
    \/ FileStatResolve(o, f)
    \/ FileReadResolve(o, f)
    \/ FileEmbedResolve(o, f)

\* The steps of every indexFile invocation in flight.
IndexFileStep == \E o \in Owners, f \in Files : TaskStep(o, f)

NextLedger ==
    \/ \E c \in Clients, ex \in Examples : StoreExampleCall(c, ex)
    \/ \E c \in Clients : StoreEmbedResolve(c)
    \/ \E c \in Clients : StoreUpsertResolve(c)
    \/ \E c \in Clients, q \in Queries : RetrieveExamplesCall(c, q)
    \/ \E c \in Clients : RetrieveEmbedResolve(c)
    \/ \E c \in Clients : RetrieveSearchResolve(c)
    \/ \E c \in Clients, q \in Queries : RetrieveErrorsCall(c, q)
    \/ \E c \in Clients : RetrieveErrorsResolve(c)
    \/ \E c \in Clients : CallSettled(c)

NextIndexer ==
    \/ IndexFileStep
    \/ \E c \in PassCallers : IndexCodebaseCall(c)
    \/ \E c \in PassCallers : GlobResolve(c)
    \/ \E c \in PassCallers : BatchResolve(c)
    \/ \E c \in PassCallers : PassSettled(c)
    \/ StartWatching
    \/ \E f \in Files : WatchEvent(f)
    \/ Tick
    \/ TimerFires
    \/ \E d \in DrainIds : DrainContinue(d)
    \/ StopWatching
    \/ \E f \in Files : DeleteFile(f)

\* The ledger and its vector-index projection, with the indexer at rest.
SpecLedger == Init /\ [][NextLedger /\ UNCHANGED <<indexerVars, embedVars, extraVars>>]_vars

\* The codebase indexer: passes, watcher, timer and drains over a tree whose
\* files get deleted; the ledger is at rest.
SpecIndexer == Init /\ [][NextIndexer /\ UNCHANGED <<ledgerVars, embedVars, extraVars>>]_vars

\* indexFile() called directly, one call at a time, on a changing tree.
NextIndexFile ==
    \/ IndexFileStep
    \/ \E f \in Files : IndexFileCall(f)
    \/ \E f \in Files : IndexFileReturn(f)
    \/ \E f \in Files : ModifyFile(f)
    \/ \E f \in Files : CreateFile(f)
    \/ \E f \in Files : DeleteFile(f)

SpecIndexFile == Init /\ [][NextIndexFile /\ UNCHANGED <<ledgerVars, embedVars, extraVars>>]_vars

\* The indexer as in SpecIndexer, with a single caller of indexCodebase() and
\* a watcher that is not stopped, and with what the runtime guarantees: time
\* passes, a due timer fires, and every awaited promise settles.  Nothing is
\* assumed of the caller, the watcher's notifications or the file system.
Operator == "p1"

NextWatch ==
    \/ IndexFileStep
    \/ IndexCodebaseCall(Operator)
    \/ GlobResolve(Operator)
    \/ BatchResolve(Operator)
    \/ PassSettled(Operator)
    \/ StartWatching
    \/ \E f \in Files : WatchEvent(f)
    \/ Tick
    \/ TimerFires
    \/ \E d \in DrainIds : DrainContinue(d)
    \/ \E f \in Files : DeleteFile(f)

FairWatch ==
    /\ Init
    /\ [][NextWatch /\ UNCHANGED <<ledgerVars, embedVars, extraVars>>]_vars
    /\ WF_vars(Tick /\ UNCHANGED <<ledgerVars, embedVars, extraVars>>)
    /\ WF_vars(TimerFires /\ UNCHANGED <<ledgerVars, embedVars, extraVars>>)
    /\ \A o \in Owners, f \in Files :
          WF_vars(TaskStep(o, f) /\ UNCHANGED <<ledgerVars, embedVars, extraVars>>)
    /\ WF_vars(GlobResolve(Operator) /\ UNCHANGED <<ledgerVars, embedVars, extraVars>>)
    /\ WF_vars(BatchResolve(Operator) /\ UNCHANGED <<ledgerVars, embedVars, extraVars>>)
    /\ \A d \in DrainIds : WF_vars(DrainContinue(d) /\ UNCHANGED <<ledgerVars, embedVars, extraVars>>)

-----------------------------------------------------------------------------
(*                 Claims about CodeRetrievalService                       *)

\* Client c takes a step of its own call.
Steps(c) == call'[c] # call[c]

\* C1: storeExample, when the embedding and the INSERT succeeded and the
\* vector-index upsert fails: the call returns the id of the new row, the row
\* stays in the ledger (the ledger is not touched, nothing is rolled back) and
\* no error reaches the caller.
C1_UpsertFailureKeepsRow ==
    [][\A c \in Clients :
          (/\ call[c].op = "store" /\ call[c].pc = "upsert"
           /\ call'[c].pc = "done" /\ call'[c].failedAt = "upsert")
          => /\ call'[c].outcome = "returned"
             /\ call'[c].retId = call[c].insertId
             /\ call[c].insertId > 0
             /\ ExampleRow(call[c].insertId, call[c].ex) \in code_examples'
             /\ code_examples' = code_examples]_vars

\* C1 witness: a store call has returned its row id after a failed upsert, the
\* row in the ledger and no point of that id in the vector index.
C1_Witness ==
    \E c \in Clients :
        /\ call[c].op = "store" /\ call[c].pc = "done"
        /\ call[c].failedAt = "upsert" /\ call[c].outcome = "returned"
        /\ \E r \in code_examples : r.id = call[c].retId
        /\ ~\E p \in qdrantPoints : p.id = call[c].retId

\* C2: retrieveSimilarExamples and retrieveSimilarErrors never raise: when the
\* embedding call, the vector-index search or the ledger query / similarity
\* computation fails, the caller gets an empty list.
C2_RetrievalNeverRaises ==
    \A c \in Clients :
        call[c].op \in {"retrieve", "errors"} =>
            /\ call[c].outcome # "threw"
            /\ (call[c].pc = "done" => call[c].outcome = "returned")
            /\ (call[c].failedAt # "none" =>
                    call[c].pc = "done" /\ call[c].retList = <<>>)

\* C2 witness: with a matching example in the vector index and a matching
\* failure in the ledger, one retrieval has degraded to [] on a failed search
\* and one on a failed ledger query.
C2_Witness ==
    /\ \E p \in qdrantPoints : p.success /\ p.task = "t1"
    /\ \E r \in code_examples : ~r.success
    /\ \E c \in Clients :
          /\ call[c].op = "retrieve" /\ call[c].pc = "done"
          /\ call[c].failedAt = "search" /\ call[c].retList = <<>>
    /\ \E c \in Clients :
          /\ call[c].op = "errors" /\ call[c].pc = "done"
          /\ call[c].failedAt = "query" /\ call[c].retList = <<>>

\* C3: storeExample: if the embedding fails, the error propagates and neither
\* the ledger nor the vector index is changed; if the INSERT fails, the error
\* propagates and no upsert is attempted.  (A store call changes the stores
\* only once it holds an insertId; a call that throws holds none, throws from
\* the embedding step and never reaches the upsert.)
C3_SubmissionFailuresPropagate ==
    [][\A c \in Clients :
          (Steps(c) /\ call'[c].op = "store") =>
             /\ (call'[c].insertId = 0 =>
                    /\ code_examples' = code_examples
                    /\ qdrantPoints' = qdrantPoints)
             /\ (call'[c].failedAt \in {"embed", "insert"} =>
                    /\ call'[c].outcome = "threw"
                    /\ call[c].pc = "embed"
                    /\ call'[c].pc = "done"
                    /\ call'[c].insertId = 0)
             /\ (call'[c].outcome = "threw" =>
                    call'[c].failedAt \in {"embed", "insert"})]_vars

\* C3 witness: one store call has thrown on the embedding and one on the
\* INSERT, with the ledger and the vector index still empty.
C3_Witness ==
    /\ code_examples = {} /\ qdrantPoints = {}
    /\ \E c \in Clients :
          /\ call[c].op = "store" /\ call[c].outcome = "threw"
          /\ call[c].failedAt = "embed"
    /\ \E c \in Clients :
          /\ call[c].op = "store" /\ call[c].outcome = "threw"
          /\ call[c].failedAt = "insert"

-----------------------------------------------------------------------------
(*                 Claims about CodebaseIndexerService                     *)

\* The indexFile(f) invocation of owner o takes a step.
TaskSteps(o, f) == task'[o, f] # task[o, f]

\* C4: idempotent skip.  An indexFile(F) call that has observed for F the
\* modification time the last completed indexFile(F) saw (whatever that call
\* stored, zero chunks included) deletes no chunk, inserts no chunk and
\* issues no embedding call.
C4_IdempotentSkip ==
    [][\A o \in Owners, f \in Files :
          (/\ task[o, f].pc \in {"read", "embed"}
           /\ completedAt[f] = task[o, f].lm
           /\ TaskSteps(o, f))
          => /\ code_chunks' = code_chunks
             /\ task'[o, f].pc # "embed"]_vars

\* C5: atomic replace.  When indexFile(F) completes for a file F modified
\* since it was last indexed, the rows stored for F are exactly the chunks
\* the chunker returned for the content read, one row per chunk, and no row
\* of the previous version remains.
C5_AtomicReplace ==
    [][\A o \in Owners, f \in Files :
          (/\ task[o, f].pc \in {"read", "embed"}
           /\ task'[o, f].pc = "done" /\ task'[o, f].outcome = "indexed"
           /\ completedAt[f] \notin {0, task'[o, f].lm})
          => RowsOf(code_chunks', f) =
                {ChunkRow(f, k, task'[o, f].lm, task'[o, f].cv) :
                    k \in task'[o, f].chunks}]_vars

\* The pending setTimeout callback runs (it is neither cleared nor re-armed).
TimerExpires ==
    /\ 0 \in pendingTimers
    /\ pendingTimers' = pendingTimers \ {0}
    /\ debounceTimer' = debounceTimer

\* A run of processIndexQueue() gets past its guard in this step.
DrainStarts(d) == drain[d].pc = "idle" /\ drain'[d].pc = "running"

\* How often the files a drain has captured hold path p.
Occurrences(seq, p) == Cardinality({i \in 1..Len(seq) : seq[i] = p})

\* C6: debounce collapse.  The notifications received for a path since the
\* timer last expired lead, when the timer expires, to exactly one indexFile
\* call for that path (the drain started at the expiry holds the path once),
\* and a drain starts only at an expiry, a full debounce window after the
\* last notification.
C6_DebounceCollapse ==
    [][/\ TimerExpires =>
            /\ quiet = DebounceTicks
            /\ \A p \in Range(indexQueue) :
                  \E d \in DrainIds :
                      /\ DrainStarts(d)
                      /\ Occurrences(<<drain'[d].cur>> \o drain'[d].rest, p) = 1
       /\ \A d \in DrainIds :
            DrainStarts(d) => TimerExpires /\ quiet = DebounceTicks]_vars

\* The indexCodebase() calls that are in progress.
ActivePasses == {c \in PassCallers : pass[c].pc \in {"glob", "batch"}}

C8_DrainExcludesPass ==
    \A d \in DrainIds : drain[d].pc = "running" => ~isIndexing

\* Path p waits for its indexFile call: in the pending set, or in the files
\* a running drain has captured and not yet reached.
Pending(p) ==
    \/ p \in Range(indexQueue)
    \/ \E d \in DrainIds : p \in Range(drain[d].rest)

\* A quiet period: a full debounce window has passed since the last
\* notification.
QuietPeriod == quiet = DebounceTicks

\* C9: every path a notification has added to the pending set is passed to
\* indexFile once a quiet period follows (if notifications stop for good, no
\* path stays pending), whether or not a full pass is active when the timer
\* fires or notifications arrive during a drain; and a drain passes each of
\* its paths once.
C9_PendingPathsAreIndexed ==
    /\ [](\A d \in DrainIds, p \in Files :
             drain[d].pc = "running" =>
                 Occurrences(<<drain[d].cur>> \o drain[d].rest, p) <= 1)
    /\ \A p \in Files : (<>[]QuietPeriod) => <>[](~Pending(p))

\* The watcher has just reported the deletion of f, a file with stored
\* chunks: the path is pending and the timer armed for the full window.
DeletionNotified(f) ==
    /\ watcher /\ ~fsExists[f]
    /\ RowsOf(code_chunks, f) # {}
    /\ f \in Range(indexQueue)
    /\ pendingTimers = {DebounceTicks} /\ quiet = 0

\* C10: when a file with stored chunks is deleted from the watched tree, the
\* notification of the deletion leads to a state in which the chunk store
\* holds no chunk of that file.  (Stated for the runs in which notifications
\* stop after a while and no full pass is ever active, so that the drain the
\* notification arms does run.)
C10_DeletedFileIsPurged ==
    \A f \in Files :
        ((<>[]QuietPeriod) /\ []~isIndexing) =>
            (DeletionNotified(f) ~> (RowsOf(code_chunks, f) = {}))

----
(* A tree of two source files                                              *)

\* The state after construction over a tree that holds both files, each with
\* one chunk of code; nothing is indexed yet.
InitTree ==
    /\ code_examples = {}
    /\ nextRowId = 1
    /\ qdrantPoints = {}
    /\ call = [c \in Clients |-> IdleCall]
    /\ fsExists = [f \in Files |-> TRUE]
    /\ fsMtime = [f \in Files |-> 1]
    /\ fsContent = [f \in Files |-> [parses |-> TRUE, chunks |-> {1}]]
    /\ code_chunks = {}
    /\ index_stats = [total_files |-> 0, total_chunks |-> 0,
                      last_indexed |-> 0, index_duration |-> 0]
    /\ isIndexing = FALSE
    /\ indexQueue = <<>>
    /\ debounceTimer = FALSE
    /\ watcher = FALSE
    /\ openWatchers = 0
    /\ pendingTimers = {}
    /\ quiet = DebounceTicks
    /\ pass = [c \in PassCallers |-> IdlePass]
    /\ drain = [d \in DrainIds |-> IdleDrain]
    /\ task = [x \in Owners \X Files |-> IdleTask]
    /\ completedAt = [f \in Files |-> 0]
    /\ apiKey = TRUE
    /\ baseURL = DefaultBaseURL
    /\ maxRetries = DefaultMaxRetries
    /\ embedCall = IdleEmbed
    /\ extractor = 0
    /\ initialized = FALSE
    /\ pipelineCalls = 0
    /\ localCall = [c \in LocalCallers |-> IdleLocal]
    /\ batchCall = IdleBatch
    /\ collectionExists = FALSE
    /\ createRequests = 0
    /\ ensureCall = [c \in EnsureCallers |-> IdleEnsure]
    /\ hybridCall = IdleHybrid
    /\ collectionSize = 0
    /\ sentLength = [c \in Clients |-> 0]
    /\ reader = IdleReader
    /\ replaced = [f \in Files |-> {}]
    /\ processEnv = NoEnv
    /\ config = ConfigFromEnv(NoEnv)
    /\ configured = {}
    /\ clearCall = IdleClear
    /\ cosine = IdleCosine

\* The indexer with one caller of indexCodebase(), the watcher, the timer and
\* the drains, over the two-file tree, whose files get deleted at any moment
\* (between enumeration and stat, between stat and read, ...).
SpecTree == InitTree /\ [][NextWatch /\ UNCHANGED <<ledgerVars, embedVars, extraVars>>]_vars

----
(* Claims C11, C12: failures of single files in a pass                      *)

\* The files of the batch a pass is waiting for.
CurrentBatch(c) == BatchOf(pass[c].files, pass[c].i)

\* The stats row as a pass over `files` leaves it.
StatsAfterPass(files) ==
    [total_files |-> Len(files), total_chunks |-> Cardinality(code_chunks),
     last_indexed |-> 1, index_duration |-> 1]

\* C11: per-file failure isolation.  Whatever the outcome of the indexFile
\* calls (missing file, read error, chunker or embedding failure), a pass
\* that has enumerated its files has passed every file of its current batch
\* to indexFile, leaves a batch only for the next batch or for its regular
\* end, where the stats row is updated and isIndexing is cleared, and never
\* rethrows; a drain goes on with the next file of its copy after every
\* file, and ends only with the copy used up.
C11_FailureIsolation ==
    /\ [](\A c \in PassCallers :
             pass[c].pc = "batch"
             => \A f \in CurrentBatch(c) : task[c, f].pc # "idle")
    /\ [][\A c \in PassCallers :
             (pass[c].pc = "batch" /\ pass'[c] # pass[c])
             => IF pass[c].i + BatchSize <= Len(pass[c].files)
                THEN /\ pass'[c].pc = "batch"
                     /\ pass'[c].i = pass[c].i + BatchSize
                     /\ pass'[c].files = pass[c].files
                ELSE /\ pass'[c].pc = "done"
                     /\ pass'[c].outcome = "completed"
                     /\ pass'[c].ret.totalFiles = Len(pass[c].files)
                     /\ index_stats' = StatsAfterPass(pass[c].files)
                     /\ ~isIndexing']_vars
    /\ [][\A d \in DrainIds :
             (drain[d].pc = "running" /\ drain'[d] # drain[d])
             => IF drain[d].rest = <<>>
                THEN drain'[d] = IdleDrain
                ELSE /\ drain'[d].pc = "running"
                     /\ drain'[d].cur = Head(drain[d].rest)
                     /\ drain'[d].rest = Tail(drain[d].rest)
                     /\ task'[d, drain'[d].cur].pc # "idle"]_vars

\* C11 witness: a pass over both files in which indexFile has failed for one
\* file and has indexed the other, about to end.
C11_Witness ==
    \E c \in PassCallers, f \in Files, g \in Files :
        /\ pass[c].pc = "batch" /\ Len(pass[c].files) = 2
        /\ task[c, f].pc = "done" /\ task[c, f].outcome = "failed"
        /\ task[c, g].pc = "done" /\ task[c, g].outcome = "indexed"
        /\ RowsOf(code_chunks, g) # {}

\* The enumerated files of caller c's pass whose indexFile call did not fail.
IndexedFiles(c) ==
    {f \in Range(pass[c].files) : task[c, f].outcome # "failed"}

\* C12: when a pass completes, the totalFiles it records in the stats row and
\* returns is the number of enumerated files that were indexed, the files
\* that could not be indexed (deleted between enumeration and stat, ...) not
\* counted.
C12_TotalFilesCountsIndexed ==
    [][\A c \in PassCallers :
          (/\ pass[c].pc = "batch" /\ Len(pass[c].files) <= BatchSize
           /\ pass'[c].pc = "done" /\ pass'[c].outcome = "completed")
          => /\ index_stats'.total_files = Cardinality(IndexedFiles(c))
             /\ pass'[c].ret.totalFiles = Cardinality(IndexedFiles(c))]_vars

----
(* Claims C13, C14: what retrieveSimilarExamples returns                    *)

\* The thresholds the callers supply, in hundredths.
Thresholds == {q.threshold : q \in Queries}

\* What retrieveSimilarExamples returns for query q over the given points
\* when the embedding and the search succeed.
RetrieveResult(points, q) == Ids(ApplyThreshold(SearchDense(points, q), q))

\* Client c's searchDense settles and retrieveSimilarExamples returns.
RetrieveReturns(c) ==
    call[c].op = "retrieve" /\ call[c].pc = "search" /\ call'[c].pc = "done"

\* C13: threshold monotonicity.  What a call returns for query Q over the
\* store as it is holds nothing that the same query with a lower threshold
\* does not return over that store, and holds everything that the same query
\* with a higher threshold returns.
C13_ThresholdMonotone ==
    [][\A c \in Clients :
          RetrieveReturns(c)
          => LET q == call[c].q
                 got == Range(call'[c].retList)
                 With(t) == Range(RetrieveResult(qdrantPoints,
                                                 [q EXCEPT !.threshold = t]))
             IN  \A t \in Thresholds :
                    /\ (t < q.threshold) => (got \subseteq With(t))
                    /\ (t > q.threshold /\ call'[c].failedAt = "none")
                       => (With(t) \subseteq got)]_vars

\* C13 witness: a call with the higher threshold has returned a non-empty
\* list, and the same query with a lower threshold returns more over the
\* same store.
C13_Witness ==
    \E c \in Clients, t \in Thresholds :
        /\ call[c].op = "retrieve" /\ call[c].pc = "done"
        /\ call[c].failedAt = "none"
        /\ t < call[c].q.threshold
        /\ call[c].retList # <<>>
        /\ call[c].retList = RetrieveResult(qdrantPoints, call[c].q)
        /\ Len(RetrieveResult(qdrantPoints, [call[c].q EXCEPT !.threshold = t]))
              > Len(call[c].retList)

\* The ledger row of the example a returned id stands for.
RowOfId(id) == CHOOSE r \in code_examples : r.id = id

\* What C14 requires of the list a call with query q has returned.
WellFormedResult(list, q) ==
    /\ \A i \in 1..Len(list) :
          /\ \E r \in code_examples : r.id = list[i]
          /\ RowOfId(list[i]).success = TRUE
          /\ q.tool # NoValue => RowOfId(list[i]).tool = q.tool
          /\ q.language # NoValue => RowOfId(list[i]).language = q.language
          /\ CosineAtLeast(Embedding(q.task), Embedding(RowOfId(list[i]).task),
                           q.threshold)
    /\ \A i \in 1..Len(list), j \in 1..Len(list) :
          i < j => ~CosineGreater(Embedding(q.task),
                                  Embedding(RowOfId(list[j]).task),
                                  Embedding(RowOfId(list[i]).task))

\* C14: every entry of a list retrieveSimilarExamples has returned is an
\* example stored with success = true that matches the supplied tool and
\* language and whose similarity is at least the threshold, the entries are
\* in non-increasing order of similarity, and the list has at most topK
\* entries.
C14_ResultsAreFilteredAndBounded ==
    \A c \in Clients :
        (call[c].op = "retrieve" /\ call[c].pc = "done")
        => /\ WellFormedResult(call[c].retList, call[c].q)
           /\ Len(call[c].retList) <= call[c].q.topK

----
(* The embedding services on their own                                     *)

\* The state after construction of an EmbeddingService, for every
\* configuration of the API key, the base URL and the number of retries.
InitGateway ==
    /\ code_examples = {}
    /\ nextRowId = 1
    /\ qdrantPoints = {}
    /\ call = [c \in Clients |-> IdleCall]
    /\ fsExists = [f \in Files |-> f = "a.ts"]
    /\ fsMtime = [f \in Files |-> IF f = "a.ts" THEN 1 ELSE 0]
    /\ fsContent = [f \in Files |->
                       [parses |-> TRUE, chunks |-> IF f = "a.ts" THEN {1} ELSE {}]]
    /\ code_chunks = {}
    /\ index_stats = [total_files |-> 0, total_chunks |-> 0,
                      last_indexed |-> 0, index_duration |-> 0]
    /\ isIndexing = FALSE
    /\ indexQueue = <<>>
    /\ debounceTimer = FALSE
    /\ watcher = FALSE
    /\ openWatchers = 0
    /\ pendingTimers = {}
    /\ quiet = DebounceTicks
    /\ pass = [c \in PassCallers |-> IdlePass]
    /\ drain = [d \in DrainIds |-> IdleDrain]
    /\ task = [x \in Owners \X Files |-> IdleTask]
    /\ completedAt = [f \in Files |-> 0]
    /\ apiKey \in BOOLEAN
    /\ baseURL \in BaseURLs
    /\ maxRetries \in 0..MaxRetries
    /\ embedCall = IdleEmbed
    /\ extractor = 0
    /\ initialized = FALSE
    /\ pipelineCalls = 0
    /\ localCall = [c \in LocalCallers |-> IdleLocal]
    /\ batchCall = IdleBatch
    /\ collectionExists = FALSE
    /\ createRequests = 0
    /\ ensureCall = [c \in EnsureCallers |-> IdleEnsure]
    /\ hybridCall = IdleHybrid
    /\ collectionSize = 0
    /\ sentLength = [c \in Clients |-> 0]
    /\ reader = IdleReader
    /\ replaced = [f \in Files |-> {}]
    /\ processEnv = NoEnv
    /\ config = ConfigFromEnv(NoEnv)
    /\ configured = {}
    /\ clearCall = IdleClear
    /\ cosine = IdleCosine

NextGateway ==
    \/ GenerateEmbeddingCall
    \/ FetchResolve
    \/ BackoffElapses
    \/ EmbeddingSettled

\* One caller of EmbeddingService.generateEmbedding at a time; the rest of
\* the service is at rest.
SpecGateway ==
    InitGateway
    /\ [][NextGateway /\ UNCHANGED <<ledgerVars, indexerVars, localVars, extraVars>>]_vars

\* SpecGateway with what the runtime guarantees: the awaited fetch settles
\* and the backoff timer fires.
FairGateway ==
    /\ InitGateway
    /\ [][NextGateway /\ UNCHANGED <<ledgerVars, indexerVars, localVars, extraVars>>]_vars
    /\ WF_vars(FetchResolve /\ UNCHANGED <<ledgerVars, indexerVars, localVars, extraVars>>)
    /\ WF_vars(BackoffElapses /\ UNCHANGED <<ledgerVars, indexerVars, localVars, extraVars>>)

NextLocal ==
    \/ \E c \in LocalCallers, op \in LocalOps : LocalCall(c, op)
    \/ \E c \in LocalCallers : LoadResolve(c)
    \/ \E c \in LocalCallers : ExtractResolve(c)
    \/ \E c \in LocalCallers : LocalSettled(c)

\* Concurrent callers of one LocalEmbeddingService.
SpecLocal ==
    Init
    /\ [][NextLocal /\ UNCHANGED <<ledgerVars, indexerVars, gatewayVars, extraVars>>]_vars

----
(* Claims C15 - C18: the retry loop of the remote embedding call            *)

\* In this step the provider call of the generateEmbedding call settles.
ProviderSettles == embedCall.pc = "fetch" /\ embedCall'.pc # "fetch"

\* The failures the contract calls retryable: connection refused, HTTP 429
\* and HTTP 5xx.
RetryableKind(failure) ==
    \/ failure.kind = "refused"
    \/ failure.kind = "http" /\ (failure.status = 429 \/ failure.status \div 100 = 5)

\* HTTP 401 and the other 4xx statuses, 429 left out.
NonRetryableKind(failure) ==
    failure.kind = "http" /\ failure.status \div 100 = 4 /\ failure.status # 429

\* C15: when a provider call fails with a connection refused, an HTTP 429 or
\* an HTTP 5xx and a retry is left, the call waits and is issued again (one
\* more provider request); with no retry left the call fails.
C15_RetryableFailuresAreRetried ==
    /\ [][(ProviderSettles /\ RetryableKind(embedCall'.failure))
          => IF embedCall.retries > 0
             THEN embedCall'.pc = "wait"
             ELSE embedCall'.pc = "done" /\ embedCall'.outcome = "threw"]_vars
    /\ [][(embedCall.pc = "wait" /\ embedCall' # embedCall)
          => /\ embedCall'.pc = "fetch"
             /\ embedCall'.requests = embedCall.requests + 1]_vars

\* C16: when a provider call fails with HTTP 401 or another 4xx status other
\* than 429, whatever the body, generateEmbedding fails at once: no backoff
\* wait follows and no further provider request is issued.
C16_NonRetryableFailuresFailAtOnce ==
    [][(ProviderSettles /\ NonRetryableKind(embedCall'.failure))
       => /\ embedCall'.pc = "done" /\ embedCall'.outcome = "threw"
          /\ embedCall'.waits = embedCall.waits
          /\ embedCall'.requests = embedCall.requests]_vars

RECURSIVE Pow2(_)
Pow2(n) == IF n = 0 THEN 1 ELSE 2 * Pow2(n - 1)

C18_MissingKeyFailsWithoutRequest ==
    /\ [](~apiKey => /\ embedCall.requests = 0 /\ embedCall.waits = <<>>
                     /\ embedCall.pc \in {"idle", "done"})
    /\ [][(~apiKey /\ embedCall.pc = "idle" /\ embedCall' # embedCall)
          => /\ embedCall'.pc = "done" /\ embedCall'.outcome = "threw"
             /\ embedCall'.error = ConfigurationError]_vars

\* C18 witness: a call made without an API key has thrown.
C18_Witness ==
    /\ ~apiKey
    /\ embedCall.pc = "done" /\ embedCall.outcome = "threw"
    /\ embedCall.error = ConfigurationError
    /\ embedCall.requests = 0

----
(* Claims C19, C20: loading the local inference model                       *)

\* The calls that are waiting for a pipeline() invocation of their own.
Loading == {c \in LocalCallers : localCall[c].pc = "load"}

\* C19: single-flight model load.  Calls started before initialization has
\* completed do not load the model twice: at no time are two pipeline()
\* invocations in flight.
C19_SingleFlightLoad == Cardinality(Loading) <= 1

\* C20: lazy load and caching.  Construction loads no model; a call made
\* while the instance is not initialized invokes pipeline(); once a load has
\* succeeded the instance stays initialized with its extractor and no call
\* invokes pipeline() again.
C20_LazyLoadAndCaching ==
    /\ (pipelineCalls = 0 /\ extractor = 0 /\ ~initialized)
    /\ [][\A c \in LocalCallers :
             (localCall[c].pc = "idle" /\ localCall'[c].pc # "idle" /\ ~initialized)
             => /\ pipelineCalls' = pipelineCalls + 1
                /\ localCall'[c].pc = "load"]_vars
    /\ [][initialized
          => /\ initialized' /\ extractor' # 0
             /\ pipelineCalls' = pipelineCalls]_vars

\* C20 witness: after the one load, made by the first call, a later embedding
\* call has returned without loading.
C20_Witness ==
    /\ initialized /\ pipelineCalls = 1 /\ extractor = 1
    /\ \E c \in LocalCallers :
          /\ localCall[c].op = "generateEmbedding"
          /\ localCall[c].pc = "done" /\ localCall[c].outcome = "returned"
          /\ localCall[c].load = 0

-----------------------------------------------------------------------------
(* The batch call alone: one generateBatchEmbeddings call over any of the  *)
(* texts arguments, its embeddings settling in any order.                  *)
NextBatch ==
    \/ GenerateBatchEmbeddingsCall
    \/ \E k \in 1..EmbedBatchSize : BatchEmbeddingResolves(k)
    \/ \E k \in 1..EmbedBatchSize : BatchEmbeddingFails(k)

SpecBatch ==
    Init /\ [][NextBatch /\ UNCHANGED <<ledgerVars, indexerVars, embedVars, qdrantVars,
                                        readerVars, configVars, retentionVars,
                                        cosineVars>>]_vars

\* C21: when generateBatchEmbeddings(texts) returns, the list it returns is
\* as long as texts and its i-th element is the embedding of texts[i],
\* whatever the length of texts (a multiple of the sub-batch size or not)
\* and whatever the order in which the embeddings settled.
C21_BatchPreservesOrderAndLength ==
    batchCall.pc = "returned" =>
        /\ Len(batchCall.value) = Len(batchCall.texts)
        /\ \A i \in 1..Len(batchCall.texts) :
              batchCall.value[i] = Embedding(batchCall.texts[i])

\* A call over more texts than one sub-batch holds, the last sub-batch
\* partly filled, has returned.
C21_Witness ==
    /\ batchCall.pc = "returned"
    /\ Len(batchCall.texts) > EmbedBatchSize
    /\ Len(batchCall.texts) % EmbedBatchSize # 0

\* C22: once an embedding of sub-batch k has failed, the batch call has
\* thrown and stays thrown, the caller holds no result of it, not even the
\* embeddings that had succeeded, and generateEmbedding has been called for
\* no text of a sub-batch after k.
C22_FailureAbortsTheBatch ==
    batchCall.failed # {} =>
        /\ batchCall.pc = "thrown"
        /\ batchCall.value = <<>>
        /\ batchCall.results = <<>>
        /\ \A f \in batchCall.failed : \A j \in batchCall.issued :
              (j - 1) \div EmbedBatchSize <= (f - 1) \div EmbedBatchSize

\* An embedding of the first sub-batch failed after another one of it had
\* succeeded, with a second sub-batch still to come: nothing of the second
\* sub-batch was ever started.
C22_Witness ==
    /\ batchCall.pc = "thrown"
    /\ Len(batchCall.texts) > EmbedBatchSize
    /\ \E f \in batchCall.failed : f <= EmbedBatchSize
    /\ \E k \in DOMAIN batchCall.slots : batchCall.slots[k].st = "ok"

-----------------------------------------------------------------------------
(*                    Claims about QdrantService                           *)

\* ensureCollectionExists() called by two service instances on a server
\* that starts without the collection.
NextCollection ==
    \/ \E c \in EnsureCallers : EnsureCollectionExistsCall(c)
    \/ \E c \in EnsureCallers : GetCollectionsResolve(c)
    \/ \E c \in EnsureCallers : CreateCollectionResolve(c)
    \/ \E c \in EnsureCallers : EnsureSettled(c)

SpecCollection ==
    Init /\ [][NextCollection /\ UNCHANGED <<ledgerVars, indexerVars, embedVars,
                                             batchVars, readerVars, configVars,
                                             retentionVars, cosineVars>>]_vars

\* C23: however often and however interleaved ensureCollectionExists is
\* called, at most one create-collection request is sent for the collection
\* and no call fails because the collection already exists.
C23_EnsureCollectionIsIdempotent ==
    /\ createRequests <= 1
    /\ \A c \in EnsureCallers : ensureCall[c].error # "already exists"

\* A deployment, whichever its environment, whose collection exists, with
\* the size this or an earlier deployment created it with, and holds the
\* points of the examples stored so far, whichever they are.
InitQdrant ==
    /\ \E n \in 0..MaxRows, ex \in [1..MaxRows -> Examples] :
          /\ code_examples = {ExampleRow(i, ex[i]) : i \in 1..n}
          /\ nextRowId = n + 1
          /\ qdrantPoints = {CodePointOf(i, ex[i]) : i \in 1..n}
    /\ collectionExists = TRUE
    /\ call = [c \in Clients |-> IdleCall]
    /\ fsExists = [f \in Files |-> f = "a.ts"]
    /\ fsMtime = [f \in Files |-> IF f = "a.ts" THEN 1 ELSE 0]
    /\ fsContent = [f \in Files |->
                       [parses |-> TRUE, chunks |-> IF f = "a.ts" THEN {1} ELSE {}]]
    /\ code_chunks = {}
    /\ index_stats = [total_files |-> 0, total_chunks |-> 0,
                      last_indexed |-> 0, index_duration |-> 0]
    /\ isIndexing = FALSE
    /\ indexQueue = <<>>
    /\ debounceTimer = FALSE
    /\ watcher = FALSE
    /\ openWatchers = 0
    /\ pendingTimers = {}
    /\ quiet = DebounceTicks
    /\ pass = [c \in PassCallers |-> IdlePass]
    /\ drain = [d \in DrainIds |-> IdleDrain]
    /\ task = [x \in Owners \X Files |-> IdleTask]
    /\ completedAt = [f \in Files |-> 0]
    /\ apiKey = TRUE
    /\ baseURL = DefaultBaseURL
    /\ maxRetries = DefaultMaxRetries
    /\ embedCall = IdleEmbed
    /\ extractor = 0
    /\ initialized = FALSE
    /\ pipelineCalls = 0
    /\ localCall = [c \in LocalCallers |-> IdleLocal]
    /\ batchCall = IdleBatch
    /\ createRequests = 0
    /\ ensureCall = [c \in EnsureCallers |-> IdleEnsure]
    /\ hybridCall = IdleHybrid
    /\ collectionSize \in CollectionSizes
    /\ sentLength = [c \in Clients |-> 0]
    /\ reader = IdleReader
    /\ replaced = [f \in Files |-> {}]
    /\ processEnv \in ProcessEnvs
    /\ config = ConfigFromEnv(processEnv)
    /\ configured = {}
    /\ clearCall = IdleClear
    /\ cosine = IdleCosine

\* searchHybrid() called on that collection, one call at a time.
NextHybrid ==
    \/ \E q \in Queries, sparse \in SparseVectors : SearchHybridCall(q, sparse)
    \/ HybridQueryResolve
    \/ FallbackResolve
    \/ HybridSettled

SpecHybrid ==
    InitQdrant /\ [][NextHybrid /\ UNCHANGED <<ledgerVars, indexerVars, embedVars,
                                               batchVars, readerVars, configVars,
                                               retentionVars, cosineVars>>]_vars

\* C24: a searchHybrid call that was given no sparse vector, or an empty
\* one, or whose hybrid query failed, ends as searchDense ends for the same
\* dense vector and options: it returns the list searchDense returns, or
\* throws the error searchDense throws; the error of the hybrid query is
\* never the error of the call.
C24_HybridDegradesToDense ==
    hybridCall.pc = "done" =>
        /\ hybridCall.error # "hybrid"
        /\ (\/ ~hybridCall.sparse.given
            \/ hybridCall.sparse.indices = {}
            \/ hybridCall.hybridFailed)
           => IF hybridCall.outcome = "returned"
              THEN hybridCall.value = Ids(SearchDense(qdrantPoints, hybridCall.q))
              ELSE hybridCall.error = "dense"

\* The hybrid query of a call with a sparse vector failed, and the call
\* returned a list that is not empty: the list of searchDense.
C24_Witness ==
    /\ hybridCall.pc = "done"
    /\ hybridCall.sparse.indices # {}
    /\ hybridCall.hybridFailed
    /\ hybridCall.outcome = "returned"
    /\ hybridCall.value # <<>>

----
(* retrieveSimilarErrors                                                   *)

\* What C25 requires of the list a retrieveSimilarErrors call with query q
\* returns, given the ledger it read.
WellFormedErrors(list, q) ==
    LET Matches(r) == /\ r.success = FALSE
                      /\ (q.tool # NoValue => r.tool = q.tool)
                      /\ (q.language # NoValue => r.language = q.language)
                      /\ (q.errorType # NoValue => r.error_type = q.errorType)
    IN  /\ \A i \in 1..Len(list) :
              /\ \E r \in code_examples : r.id = list[i]
              /\ Matches(RowOfId(list[i]))
              /\ Cardinality({o \in code_examples :
                                 Matches(o) /\ o.id > list[i]}) < RecentLimit
              /\ CosineAtLeast(Embedding(q.task), Embedding(RowOfId(list[i]).task),
                               q.threshold)
        /\ \A i \in 1..Len(list), j \in 1..Len(list) :
              i < j => ~CosineGreater(Embedding(q.task),
                                      Embedding(RowOfId(list[j]).task),
                                      Embedding(RowOfId(list[i]).task))
        /\ Len(list) <= q.topK

-----------------------------------------------------------------------------
(*                Claims about the readers of the chunk store              *)

\* indexFile takes a step; the history of the rows its DELETE removed is
\* kept until the call is done.
IndexFileStepRecorded ==
    /\ IndexFileStep
    /\ replaced' = [f \in Files |->
          IF task'[ApiCaller, f].pc = "embed"
          THEN (IF task[ApiCaller, f].pc = "read" THEN RowsOf(code_chunks, f)
                ELSE replaced[f])
          ELSE {}]
    /\ UNCHANGED reader

\* One reader beside indexFile() called directly on a file that gets modified.
NextReader ==
    \/ IndexFileStepRecorded
    \/ \E f \in Files : IndexFileCall(f) /\ UNCHANGED readerVars
    \/ \E f \in Files : IndexFileReturn(f) /\ UNCHANGED readerVars
    \/ \E f \in Files : ModifyFile(f) /\ UNCHANGED readerVars
    \/ \E q \in SearchQueries : SearchSimilarCall(q) /\ UNCHANGED indexerVars
    \/ SearchSimilarResolve /\ UNCHANGED indexerVars
    \/ GetStatsCall /\ UNCHANGED indexerVars
    \/ ReaderSettled /\ UNCHANGED indexerVars

SpecReader ==
    Init /\ [][NextReader /\ UNCHANGED <<ledgerVars, embedVars, batchVars,
                                         qdrantVars, configVars, retentionVars,
                                         cosineVars>>]_vars

\* The reader's call returns in this step with what it read from the store.
ReaderReads ==
    /\ reader.pc # "done" /\ reader'.pc = "done"
    /\ ~reader'.degraded

\* list is exactly the topK most similar of the rows (of the language, when
\* one is given) whose similarity to the query is at least the threshold,
\* most similar first.
ExactTopK(list, rows, q) ==
    LET qvec == Embedding(q.task)
        cands == ChunkCandidates(rows, q.language)
        qual == {c \in cands : CosineAtLeast(qvec, Embedding(c.task), q.threshold)}
        Cand(id) == CHOOSE c \in cands : c.id = id
    IN  /\ \A i \in 1..Len(list) : list[i] \in {c.id : c \in qual}
        /\ \A i \in 1..Len(list), j \in 1..Len(list) : i # j => list[i] # list[j]
        /\ Len(list) = Min(q.topK, Cardinality(qual))
        /\ \A i \in 1..Len(list), j \in 1..Len(list) :
              i < j => ~CosineGreater(qvec, Embedding(Cand(list[j]).task),
                                      Embedding(Cand(list[i]).task))
        /\ \A c \in qual : \A i \in 1..Len(list) :
              c.id \notin {list[j] : j \in 1..Len(list)}
              => ~CosineGreater(qvec, Embedding(c.task), Embedding(Cand(list[i]).task))

\* C26: the list searchSimilar returns is exactly the topK stored chunks
\* most similar to the query among those (of the language supplied, when
\* one is) whose similarity is at least the supplied threshold, in
\* non-increasing order of similarity, for every threshold and topK
\* supplied, the threshold 0 included.
C26_SearchSimilarIsExactTopK ==
    [][(reader.op = "search" /\ ReaderReads)
          => ExactTopK(reader'.value, code_chunks, reader.q)]_vars

\* C27: a reader (searchSimilar or getStats) that reads the chunk store
\* while indexFile(F) replaces the rows of a modified file F finds either
\* the rows F had before or the complete rows of the new content, never
\* none or only some of them.
C27_ReadersSeeWholeFiles ==
    [][ReaderReads =>
          \A f \in Files :
              replaced[f] # {} =>
                  \/ RowsOf(code_chunks, f) = replaced[f]
                  \/ RowsOf(code_chunks, f) =
                        {ChunkRow(f, k, task[ApiCaller, f].lm, task[ApiCaller, f].cv) :
                            k \in task[ApiCaller, f].chunks}]_vars

----
(* The order of embedding and writes                                       *)

\* C28: within indexFile(F) the chunk store is written for F, the deletion
\* of F's old rows included, only by a step in which an embedding of that
\* call has completed.  (The other half of the claim, that storeExample
\* inserts after its embedding and upserts after its INSERT, is the order
\* of the awaits of StoreEmbedResolve and StoreUpsertResolve.)
C28_WritesFollowEmbeddings ==
    [][\A f \in Files :
          RowsOf(code_chunks', f) # RowsOf(code_chunks, f)
          => \E o \in Owners : task[o, f].pc = "embed" /\ TaskSteps(o, f)]_vars

-----------------------------------------------------------------------------
(* Runtime configuration: POST /configure beside retrievals that pass no   *)
(* options.                                                                *)

NextConfig ==
    \/ (\E body \in ConfigBodies : Configure(body)) /\ UNCHANGED ledgerVars
    \/ /\ \E c \in Clients : \/ RetrieveWithDefaults(c)
                             \/ RetrieveEmbedResolve(c)
                             \/ RetrieveSearchResolve(c)
                             \/ CallSettled(c)
       /\ UNCHANGED configVars

SpecConfig ==
    InitQdrant /\ [][NextConfig /\ UNCHANGED <<indexerVars, embedVars, batchVars,
                                               qdrantVars, readerVars,
                                               retentionVars, cosineVars>>]_vars

\* C29: once POST /configure has set topK, the threshold or the model, a
\* retrieval that passes no options filters with the configured threshold
\* and truncates at the configured topK, and its embedding request names the
\* configured model.
C29_ConfigurationTakesEffect ==
    [][\A c \in Clients :
          call[c].pc = "idle" /\ call'[c].op = "retrieve"
          => /\ ("topK" \in configured => call'[c].q.topK = config.RAG_TOP_K)
             /\ ("threshold" \in configured
                    => call'[c].q.threshold = config.RAG_SIMILARITY_THRESHOLD)
             /\ ("llmModel" \in configured
                    => DefaultModel(processEnv) = config.EMBEDDING_LLM_MODEL)]_vars

-----------------------------------------------------------------------------
(* The length of the dense vectors storeExample sends to the collection.   *)
(* storeExample puts the embedding it was given in codePoint.vector.dense  *)
(* and upsertPoint sends it as it is; neither looks at its length.         *)

\* generateEmbedding settles: the embedding has the length the provider
\* gives the vectors of the model requested.
StoreEmbedResolveMeasured(c) ==
    /\ StoreEmbedResolve(c)
    /\ IF call'[c].pc = "upsert"
       THEN \E d \in ProviderDimensions(DefaultModel(processEnv)) :
               sentLength' = [sentLength EXCEPT ![c] = d]
       ELSE UNCHANGED sentLength

\* client.upsert settles: a collection takes no vector of another size.
StoreUpsertResolveMeasured(c) ==
    /\ StoreUpsertResolve(c)
    /\ (sentLength[c] # collectionSize => call'[c].failedAt = "upsert")
    /\ UNCHANGED sentLength

NextDimension ==
    \/ \E c \in Clients, ex \in Examples :
          StoreExampleCall(c, ex) /\ UNCHANGED sentLength
    \/ \E c \in Clients : StoreEmbedResolveMeasured(c)
    \/ \E c \in Clients : StoreUpsertResolveMeasured(c)
    \/ \E c \in Clients :
          CallSettled(c) /\ sentLength' = [sentLength EXCEPT ![c] = 0]

SpecDimension ==
    InitQdrant /\ [][NextDimension
                     /\ UNCHANGED <<indexerVars, embedVars, batchVars, readerVars,
                                    configVars, retentionVars, cosineVars,
                                    collectionExists, createRequests,
                                    ensureCall, hybridCall, collectionSize>>]_vars

\* Both services give every model identifier the same vector size.
SameSizeTables == \A m \in ModelIds : QdrantVectorSize(m) = RetrievalVectorSize(m)

\* C30: every dense vector sent for upsert has the length of the collection's
\* vectors, that size is the one getVectorSizeForModel gives the configured
\* model, and the two services' tables agree on every model identifier.
C30_VectorsHaveTheCollectionSize ==
    /\ \A c \in Clients :
          sentLength[c] # 0
          => /\ sentLength[c] = collectionSize
             /\ collectionSize = QdrantVectorSize(config.EMBEDDING_LLM_MODEL)
    /\ SameSizeTables

-----------------------------------------------------------------------------
(* Deletion by age beside the store and retrieve calls.                    *)

NextRetention ==
    \/ /\ \/ \E c \in Clients, ex \in Examples : StoreExampleCall(c, ex)
          \/ \E c \in Clients : StoreEmbedResolve(c)
          \/ \E c \in Clients : StoreUpsertResolve(c)
          \/ \E c \in Clients : RetrieveExamplesCall(c, Query(NoValue, NoValue, 2, 0))
          \/ \E c \in Clients : RetrieveEmbedResolve(c)
          \/ \E c \in Clients : RetrieveSearchResolve(c)
          \/ \E c \in Clients : CallSettled(c)
       /\ UNCHANGED clearCall
    \/ \E cutoff \in 0..MaxRows : ClearOldExamples(cutoff)
    \/ \E cutoff \in 0..MaxRows : ClearOldPointsCall(cutoff)
    \/ ClearOldPointsResolve
    \/ ClearSettled

SpecRetention ==
    Init /\ [][NextRetention /\ UNCHANGED <<indexerVars, embedVars, batchVars,
                                            qdrantVars, readerVars, configVars,
                                            cosineVars>>]_vars

\* C31: a clearOldPoints call that returns, returns the number of points its
\* delete removed from the collection, and a clearOldExamples call the number
\* of rows its DELETE removed from code_examples.
C31_DeletionsReturnTheirCount ==
    [][clearCall.pc # "done" /\ clearCall'.pc = "done" /\ clearCall'.outcome = "returned"
       => /\ (clearCall'.op = "examples"
                => clearCall'.value = Cardinality(code_examples)
                                        - Cardinality(code_examples'))
          /\ (clearCall'.op = "points"
                => clearCall'.value = Cardinality(qdrantPoints)
                                        - Cardinality(qdrantPoints'))]_vars

\* The half of C31 about the ledger.
ExamplesDeletionReturnsItsCount ==
    [][clearCall.pc # "done" /\ clearCall'.pc = "done" /\ clearCall'.outcome = "returned"
       /\ clearCall'.op = "examples"
       => clearCall'.value = Cardinality(code_examples) - Cardinality(code_examples')]_vars

\* C34: every point of the vector index has the id of a row of the ledger,
\* and the examples a retrieveSimilarExamples call returns are rows of the
\* ledger at the time it returns.
C34_IndexIsAProjectionOfTheLedger ==
    [][/\ \A p \in qdrantPoints' : \E r \in code_examples' : r.id = p.id
       /\ \A c \in Clients :
             call[c].op = "retrieve" /\ call[c].pc = "search" /\ call'[c].pc = "done"
             => \A i \in 1..Len(call'[c].retList) :
                   \E r \in code_examples' : r.id = call'[c].retList[i]]_vars

-----------------------------------------------------------------------------
(* cosineSimilarity on every pair of vectors up to MaxDim entries.         *)

NextCosine == \E a \in Vectors, b \in Vectors : CosineSimilarityCall(a, b)

SpecCosine ==
    Init /\ [][NextCosine /\ UNCHANGED <<ledgerVars, indexerVars, embedVars, batchVars,
                                         qdrantVars, readerVars, configVars,
                                         retentionVars>>]_vars

NonZero(v) == \E i \in 1..Len(v) : v[i] # 0

\* C32: for two non-zero vectors of the same length cosineSimilarity returns
\* a number in [-1, 1], that is dotProduct^2 <= normA * normB, and for a
\* non-zero vector and itself it returns 1, that is dotProduct is positive
\* and dotProduct^2 = normA * normB.
C32_CosineIsBounded ==
    /\ cosine.outcome # "none"
    /\ Len(cosine.a) = Len(cosine.b)
    /\ NonZero(cosine.a) /\ NonZero(cosine.b)
    => /\ cosine.outcome = "number"
       /\ cosine.dotProduct * cosine.dotProduct <= cosine.normA * cosine.normB
       /\ (cosine.a = cosine.b
             => /\ cosine.dotProduct > 0
                /\ cosine.dotProduct * cosine.dotProduct = cosine.normA * cosine.normB)

\* Two vectors of MaxDim entries, none of them 0, that point in different
\* directions were compared: the similarity is negative and above -1.
C32_Witness ==
    /\ cosine.outcome = "number"
    /\ Len(cosine.a) = MaxDim
    /\ \A i \in 1..MaxDim : cosine.a[i] # 0 /\ cosine.b[i] # 0
    /\ cosine.dotProduct < 0
    /\ cosine.dotProduct * cosine.dotProduct < cosine.normA * cosine.normB

-----------------------------------------------------------------------------
(* getStats() called beside the passes of one caller of indexCodebase().   *)

NextStats ==
    \/ /\ \/ IndexFileStep
          \/ IndexCodebaseCall(Operator)
          \/ GlobResolve(Operator)
          \/ BatchResolve(Operator)
          \/ PassSettled(Operator)
          \/ \E f \in Files : CreateFile(f)
       /\ UNCHANGED readerVars
    \/ /\ GetStatsCall \/ ReaderSettled
       /\ UNCHANGED indexerVars

SpecStats ==
    Init /\ [][NextStats /\ UNCHANGED <<ledgerVars, embedVars, batchVars, qdrantVars,
                                        configVars, retentionVars, cosineVars>>]_vars

\* C33: once a pass has completed, getStats() returns the totalFiles,
\* lastIndexed and indexDuration the stats row holds, and the number of rows
\* of code_chunks as totalChunks.
C33_GetStatsReturnsTheStatsRow ==
    [][reader.pc = "idle" /\ reader'.op = "stats" /\ index_stats.last_indexed # 0
       => /\ reader'.stats.totalFiles = index_stats.total_files
          /\ reader'.stats.lastIndexed = index_stats.last_indexed
          /\ reader'.stats.indexDuration = index_stats.index_duration
          /\ reader'.stats.totalChunks = Cardinality(code_chunks)]_vars

\* The part of C33 about totalChunks.
GetStatsCountsTheChunks ==
    [][reader.pc = "idle" /\ reader'.op = "stats"
       => reader'.stats.totalChunks = Cardinality(code_chunks)]_vars

----
(* Claim C35: one indexFile call per path at a time                        *)

\* The indexFile(f) calls in flight: started and not yet returned.
InFlight(f) == {o \in Owners : task[o, f].pc \notin {"idle", "done"}}

\* C35: at any time at most one indexFile call is in flight for a path,
\* whichever passes and drains are running.
C35_OneIndexFilePerPath ==
    \A f \in Files : Cardinality(InFlight(f)) <= 1

-----------------------------------------------------------------------------
(* The callers of indexCodebase() on a tree that grows, with what the      *)
(* runtime guarantees: every awaited promise of a pass settles.  Nothing   *)
(* is assumed of the callers or of the file system.                        *)

NextPasses ==
    \/ IndexFileStep
    \/ \E c \in PassCallers : IndexCodebaseCall(c)
    \/ \E c \in PassCallers : GlobResolve(c)
    \/ \E c \in PassCallers : BatchResolve(c)
    \/ \E c \in PassCallers : PassSettled(c)
    \/ \E f \in Files : CreateFile(f)

FairPasses ==
    /\ Init
    /\ [][NextPasses /\ UNCHANGED <<ledgerVars, embedVars, extraVars>>]_vars
    /\ \A o \in Owners, f \in Files :
          WF_vars(TaskStep(o, f) /\ UNCHANGED <<ledgerVars, embedVars, extraVars>>)
    /\ \A c \in PassCallers :
          WF_vars(GlobResolve(c) /\ UNCHANGED <<ledgerVars, embedVars, extraVars>>)
    /\ \A c \in PassCallers :
          WF_vars(BatchResolve(c) /\ UNCHANGED <<ledgerVars, embedVars, extraVars>>)

\* C36: isIndexing is true exactly while a pass is running, whether the pass
\* then returns or throws, and it does not stay true: a time comes when an
\* indexCodebase() call is accepted.
C36_IsIndexingFollowsThePass ==
    /\ [](isIndexing <=> ActivePasses # {})
    /\ (isIndexing ~> ~isIndexing)

\* The glob of a pass was rejected while the call of the other caller had
\* been refused: the pass threw and isIndexing is false again.
C36_Witness ==
    /\ ~isIndexing
    /\ \E c \in PassCallers, d \in PassCallers :
          pass[c].outcome = "threw" /\ pass[d].outcome = "rejected"

-----------------------------------------------------------------------------
(* What each operation leaves alone.  A tree of two files that are         *)
(* modified, a watcher whose drains call indexFile, removeFile, one reader *)
(* of the chunk store and one client retrieving from the ledger.           *)

\* No timer is pending and no drain is running.
IndexerAtRest == pendingTimers = {} /\ \A d \in DrainIds : drain[d].pc = "idle"

\* The operations come one at a time: the reader and the client call while
\* the indexer is at rest, and the tree changes between their calls.
NextFrame ==
    \/ /\ reader.pc = "idle" /\ \A c \in Clients : call[c].pc = "idle"
       /\ \/ IndexFileStep
          \/ \E f \in Files : RemoveFile(f)
          \/ \E f \in Files : ModifyFile(f)
          \/ StartWatching
          \/ \E f \in Files : WatchEvent(f)
          \/ Tick
          \/ TimerFires
          \/ \E d \in DrainIds : DrainContinue(d)
       /\ UNCHANGED <<readerVars, ledgerVars>>
    \/ /\ IndexerAtRest /\ \A c \in Clients : call[c].pc = "idle"
       /\ \/ SearchSimilarCall([task |-> "t1", topK |-> 1, threshold |-> 50,
                                language |-> NoValue])
          \/ SearchSimilarResolve
          \/ GetStatsCall
          \/ ReaderSettled
       /\ UNCHANGED <<indexerVars, ledgerVars>>
    \/ /\ IndexerAtRest /\ reader.pc = "idle"
       /\ \E c \in {"c1"} :
             \/ RetrieveExamplesCall(c, Query(NoValue, NoValue, 2, 0))
             \/ RetrieveEmbedResolve(c)
             \/ RetrieveSearchResolve(c)
             \/ RetrieveErrorsCall(c, Query(NoValue, NoValue, 2, 0))
             \/ RetrieveErrorsResolve(c)
             \/ CallSettled(c)
       /\ UNCHANGED <<indexerVars, readerVars>>

SpecFrame ==
    InitTree /\ [][NextFrame /\ UNCHANGED <<embedVars, batchVars, qdrantVars,
                                            configVars, retentionVars,
                                            cosineVars>>]_vars

\* The three stores the readers are given.
Stores == <<code_chunks, code_examples, qdrantPoints>>

\* C37: a step of indexFile(F), and removeFile(F), leave the rows of every
\* other file and the stats row as they are; a step of a drain leaves the
\* stats row as it is; and a step of searchSimilar, getStats,
\* retrieveSimilarExamples or retrieveSimilarErrors leaves the chunk store,
\* the ledger and the vector index as they are.
C37_OperationsKeepTheirFrame ==
    [][/\ \A f \in Files :
             (\E o \in Owners : TaskSteps(o, f)) \/ RemoveFile(f)
             => /\ \A g \in Files \ {f} :
                      RowsOf(code_chunks', g) = RowsOf(code_chunks, g)
                /\ index_stats' = index_stats
       /\ (drain' # drain => index_stats' = index_stats)
       /\ (reader' # reader => Stores' = Stores)
       /\ (call' # call => Stores' = Stores)]_vars

\* The drain is re-indexing a.ts, whose old rows it has deleted, while the
\* rows of b.ts are in the store.
C37_Witness ==
    /\ \E d \in DrainIds : task[d, "a.ts"].pc = "embed"
    /\ completedAt["a.ts"] # 0
    /\ RowsOf(code_chunks, "a.ts") = {}
    /\ RowsOf(code_chunks, "b.ts") # {}

-----------------------------------------------------------------------------
(* stopWatching(): what a stopped watcher no longer does.                  *)

\* C38: while no watcher is installed (after stopWatching() and until the
\* next startWatching()) no run of processIndexQueue() starts, no path is
\* added to the queue, no timer is pending and no fs.watch handle is open;
\* and at no time is more than one handle open, however often startWatching()
\* is called.
C38_StoppedWatcherIsSilent ==
    [][/\ openWatchers' <= 1
       /\ (~watcher => /\ \A d \in DrainIds : ~DrainStarts(d)
                       /\ indexQueue' = indexQueue
                       /\ pendingTimers = {}
                       /\ openWatchers = 0)]_vars

\* stopWatching() was called right after a notification: the path is queued,
\* no time has passed since, and the timer that was armed is gone.
C38_Witness ==
    /\ ~watcher
    /\ indexQueue # <<>>
    /\ quiet = 0
    /\ pendingTimers = {}
    /\ ~debounceTimer

=============================================================================
